---------------------------- MODULE Spec2Model ----------------------------
(***************************************************************************)
(* Model of the response parsers of the strava-client library              *)
(* (src/libs/strava-client/strava_client/responses.py).                    *)
(*                                                                         *)
(* Python lists are TLA+ sequences.  Python indices start at 0, sequence   *)
(* positions at 1: At(s, i) is the Python expression s[i].                 *)
(* Elapsed times are whole seconds, as in the Strava "time" stream.        *)
(***************************************************************************)
EXTENDS Integers, Sequences, FiniteSets, TLC

VARIABLES
    data,        \* StreamsResponse.data: the list of stream dicts
    validated,   \* lru_cache of StreamsResponse._validate_data_size
    mt_out,      \* outcome of the last get_moving_time_stream call
    mt_calls,    \* number of get_moving_time_stream calls made
    activity,    \* ActivityDetailsResponse.data["segment_efforts"]
    se_filter,   \* segments_filter of the last get_segment_efforts call
    se_out,      \* outcome of the last get_segment_efforts call
    se_calls,    \* number of get_segment_efforts calls made
    validate_log, \* runs of the body of _validate_data_size, oldest first
    lru_newer,   \* entries of the lru_cache used after this response's entry
    sr_name,     \* stream type of the last StreamsResponse accessor call
    sr_out,      \* outcome of the last StreamsResponse accessor call
    sr_calls,    \* number of StreamsResponse accessor calls made
    gc_payload,  \* raw data handed to the Garmin ActivityDetailsResponse
    gc,          \* the Garmin ActivityDetailsResponse and how __init__ ended
    gc_call,     \* the last accessor call on the Garmin response
    gc_out,      \* outcome of the last accessor call on the Garmin response
    gc_calls,    \* number of accessor calls on the Garmin response
    rl_exc,      \* the StravaApiRateLimitExceeded raised last
    db,          \* the three tables of the SQLite database of the exporter
    ex_run,      \* the last run of ExporterToDb: what it read and how it ended
    ex_runs,     \* number of runs of ExporterToDb made
    cl_call,     \* the last call of a client method or constructor
    cl_out,      \* outcome of the last call of a client
    cl_http,     \* the HTTP requests issued by the last call, oldest first
    cl_calls,    \* number of client calls made
    pg,          \* the generator _api_yield_all_activity_summaries
    pg_now       \* the wall clock seen by the retry wrapper

vars ==
    <<data, validated, mt_out, mt_calls, activity, se_filter, se_out, se_calls,
      validate_log, lru_newer, sr_name, sr_out, sr_calls,
      gc_payload, gc, gc_call, gc_out, gc_calls, rl_exc,
      db, ex_run, ex_runs, cl_call, cl_out, cl_http, cl_calls, pg, pg_now>>

exVars == <<db, ex_run, ex_runs>>
clVars == <<cl_call, cl_out, cl_http, cl_calls>>
pgVars == <<pg, pg_now>>
toolVars == <<exVars, clVars, pgVars>>

rlVars == <<rl_exc>>
gcVars == <<gc_payload, gc, gc_call, gc_out, gc_calls>>

seVars == <<activity, se_filter, se_out, se_calls>>
mtVars == <<mt_out, mt_calls>>
srVars == <<sr_name, sr_out, sr_calls>>

(***************************************************************************)
(* Bounds.                                                                 *)
(***************************************************************************)
MaxLen == 6        \* longest stream
MaxCalls == 2      \* calls of one accessor that are counted

(***************************************************************************)
(* Python helpers.                                                         *)
(***************************************************************************)
At(s, i) == s[i + 1]

\* range(a, b) as the ascending sequence a, a+1, ..., b-1.
Range(a, b) == [k \in 1..(IF b > a THEN b - a ELSE 0) |-> a + k - 1]

\* Outcome of a call: nothing yet, a returned value, or a raised exception
\* with its constructor arguments.
NoOutcome == [kind |-> "none", value |-> <<>>, exc |-> "", args |-> <<>>]
Return(v) == [kind |-> "return", value |-> v, exc |-> "", args |-> <<>>]
Raise(e, a) == [kind |-> "raise", value |-> <<>>, exc |-> e, args |-> a]

(***************************************************************************)
(* StreamsResponse                                                         *)
(***************************************************************************)
\* Seconds of standing still from which a pause is subtracted.
PauseThreshold == 13

\* get_original_dataset_size: the original_size declared by the first stream.
get_original_dataset_size(d) == At(d, 0).original_size

\* _validate_data_size: position (from 1) of the first stream whose size is
\* not the original size, 0 when every stream has the original size.
RECURSIVE FirstWrongSize(_, _)
FirstWrongSize(d, k) ==
    IF k > Len(d) THEN 0
    ELSE IF Len(d[k].data) # get_original_dataset_size(d) THEN k
    ELSE FirstWrongSize(d, k + 1)

\* A validation that passes the two sizes in the other order.
_validate_data_size_swapped(d) ==
    LET k == FirstWrongSize(d, 1) IN
    IF k = 0 THEN Return(<<>>)
    ELSE Raise("StreamSizeError",
               <<d[k].type, get_original_dataset_size(d), Len(d[k].data)>>)

_validate_data_size(d) ==
    LET k == FirstWrongSize(d, 1) IN
    IF k = 0 THEN Return(<<>>)
    ELSE Raise("StreamSizeError",
               <<d[k].type, Len(d[k].data), get_original_dataset_size(d)>>)

\* The for loop of _get_stream_by_name: the data of the last stream of the
\* given type, the empty list when there is none.
RECURSIVE StreamDataNamed(_, _, _, _)
StreamDataNamed(d, name, k, acc) ==
    IF k > Len(d) THEN acc
    ELSE StreamDataNamed(d, name, k + 1,
                         IF d[k].type = name THEN d[k].data ELSE acc)

\* Position (from 1) of the stream whose data list that loop ends with,
\* 0 when there is none: the list object the accessor hands out.
RECURSIVE StreamPosNamed(_, _, _, _)
StreamPosNamed(d, name, k, acc) ==
    IF k > Len(d) THEN acc
    ELSE StreamPosNamed(d, name, k + 1, IF d[k].type = name THEN k ELSE acc)

\* An accessor that looks the stream up before it validates the sizes.
_get_stream_by_name_lookupFirst(d, cached, name) ==
    LET v == IF cached THEN Return(<<>>) ELSE _validate_data_size(d)
        stream_data == StreamDataNamed(d, name, 1, <<>>)
    IN  IF stream_data = <<>> THEN Raise("StreamNotFound", <<name>>)
        ELSE IF v.kind = "raise" THEN v
        ELSE Return(stream_data)

\* _get_stream_by_name; cached tells whether _validate_data_size has
\* already returned for this response.
_get_stream_by_name(d, cached, name) ==
    LET v == IF cached THEN Return(<<>>) ELSE _validate_data_size(d)
        stream_data == StreamDataNamed(d, name, 1, <<>>)
    IN  IF v.kind = "raise" THEN v
        ELSE IF stream_data = <<>> THEN Raise("StreamNotFound", <<name>>)
        ELSE Return(stream_data)

\* The runs of the body of _validate_data_size after one accessor call: the
\* body runs when the lru_cache holds no entry for the response, and only a
\* run that returns leaves an entry.
ValidateLogAfter(d, cached, log) ==
    IF cached THEN log
    ELSE Append(log, IF _validate_data_size(d).kind = "raise"
                     THEN "raised" ELSE "returned")

\* The inner loop: for j in range(i, len(m)): m[j] -= diff.
RECURSIVE SubtractFrom(_, _, _)
SubtractFrom(m, j, diff) ==
    IF j >= Len(m) THEN m
    ELSE SubtractFrom([m EXCEPT ![j + 1] = @ - diff], j + 1, diff)

\* A loop body without the test of the threshold.
LoopBody_noThreshold(m, moving_stream, i) ==
    IF At(moving_stream, i) = FALSE
    THEN SubtractFrom(m, i, At(m, i) - At(m, i - 1))
    ELSE m

\* A loop body that follows its comment: a diff of 13 is ignored too.
LoopBody_ignoreEqual(m, moving_stream, i) ==
    IF At(moving_stream, i) = FALSE
    THEN LET diff == At(m, i) - At(m, i - 1) IN
         IF diff <= 13 THEN m
         ELSE SubtractFrom(m, i, diff)
    ELSE m

\* A loop body whose inner loop starts one sample late.
LoopBody_late(m, moving_stream, i) ==
    IF At(moving_stream, i) = FALSE
    THEN LET diff == At(m, i) - At(m, i - 1) IN
         IF diff < 13 THEN m
         ELSE SubtractFrom(m, i + 1, diff)
    ELSE m

\* A loop body that shifts the sample at i alone, not the samples after it.
LoopBody_onlyCurrent(m, moving_stream, i) ==
    IF At(moving_stream, i) = FALSE
    THEN LET diff == At(m, i) - At(m, i - 1) IN
         IF diff < PauseThreshold THEN m
         ELSE [m EXCEPT ![i + 1] = @ - diff]
    ELSE m

\* One iteration of the outer loop, at Python index i, on working array m.
LoopBody(m, moving_stream, i) ==
    IF At(moving_stream, i) = FALSE
    THEN LET diff == At(m, i) - At(m, i - 1) IN
         IF diff < PauseThreshold THEN m
         ELSE SubtractFrom(m, i, diff)
    ELSE m

\* An outer loop that starts at the second sample.
LoopIndices_from1(m) == Range(1, Len(m))

\* The indices of the outer loop: range(2, len(moving_time_stream)).
LoopIndices(m) == Range(2, Len(m))

\* The working array after the first n iterations of the outer loop.
RECURSIVE WorkingAfter(_, _, _)
WorkingAfter(elapsed, moving_stream, n) ==
    IF n = 0 THEN elapsed
    ELSE LoopBody(WorkingAfter(elapsed, moving_stream, n - 1), moving_stream,
                  LoopIndices(elapsed)[n])

\* The list returned by the loop of get_moving_time_stream.
MovingTimeOf(elapsed, moving_stream) ==
    WorkingAfter(elapsed, moving_stream, Len(LoopIndices(elapsed)))

\* A working list that is the stored list itself (no slice).
SliceCopyKeeps_alias(stored, working) == working

\* elapsed[:] is a new list: the writes of the loop do not reach the list
\* held by the response.
SliceCopyKeeps(stored, working) == stored

\* get_moving_time_stream as a whole: outcome, data and cache after the call.
get_moving_time_stream(d, cached) ==
    LET t == _get_stream_by_name(d, cached, "time")
        mv == _get_stream_by_name(d, cached \/ t.kind = "return", "moving")
    IN  IF t.kind = "raise"
        THEN [out |-> t, data |-> d,
              cached |-> cached \/ t.exc # "StreamSizeError"]
        ELSE IF mv.kind = "raise"
        THEN [out |-> mv, data |-> d, cached |-> TRUE]
        ELSE LET m == MovingTimeOf(t.value, mv.value) IN
             [out |-> Return(m),
              data |-> [d EXCEPT ![StreamPosNamed(d, "time", 1, 0)].data =
                                     SliceCopyKeeps(@, m)],
              cached |-> TRUE]

GetMovingTimeStream ==
    /\ mt_calls < MaxCalls
    /\ LET r == get_moving_time_stream(data, validated) IN
         /\ mt_out' = r.out
         /\ data' = r.data
         /\ validated' = r.cached
    /\ validate_log' = ValidateLogAfter(data, validated, validate_log)
    /\ lru_newer' = 0
    /\ mt_calls' = mt_calls + 1
    /\ UNCHANGED <<seVars, srVars, gcVars, rlVars, toolVars>>

(***************************************************************************)
(* Payloads of the stream specification.                                   *)
(***************************************************************************)
\* Differences between consecutive samples of the elapsed-time stream.
Deltas == {-1, 1, 12, 13}

RECURSIVE ElapsedStreams(_)
ElapsedStreams(n) ==
    IF n = 0 THEN {<<>>}
    ELSE IF n = 1 THEN {<<0>>}
    ELSE {Append(s, s[n - 1] + dl) : s \in ElapsedStreams(n - 1), dl \in Deltas}

MovingStreams(n) == [1..n -> BOOLEAN]

Stream(type, values, size) ==
    [type |-> type, data |-> values, original_size |-> size]

NoActivity == [has_efforts |-> FALSE, segment_efforts |-> <<>>]

\* The components a specification leaves alone.
IdleSE ==
    /\ activity = NoActivity
    /\ se_filter = [none |-> TRUE, keys |-> <<>>]
    /\ se_out = NoOutcome
    /\ se_calls = 0

IdleMT == mt_out = NoOutcome /\ mt_calls = 0

IdleSR == sr_name = "" /\ sr_out = NoOutcome /\ sr_calls = 0

\* No Garmin response: nothing received, nothing constructed.
NoGarmin ==
    [state |-> "none", exc |-> "", args |-> <<>>, kept |-> FALSE,
     original_dataset_size |-> 0, streams_size |-> 0,
     map |-> <<>>, streams |-> <<>>]

NoPayload ==
    [totalMetricsCount |-> 0, metricsCount |-> 0,
     metricDescriptors |-> <<>>, activityDetailMetrics |-> <<>>]

NoCall == [name |-> "", do_remove_none_values |-> FALSE]

IdleGC ==
    /\ gc_payload = NoPayload
    /\ gc = NoGarmin
    /\ gc_call = NoCall
    /\ gc_out = NoOutcome
    /\ gc_calls = 0

\* No response has been validated when a response is constructed.
NewCache == validated = FALSE /\ validate_log = <<>> /\ lru_newer = 0

\* A datetime of one timezone: days since some day, and the time of day.
DateTime(d, h, m, sec, us) ==
    [day |-> d, hour |-> h, minute |-> m, second |-> sec, microsecond |-> us]

\* No StravaApiRateLimitExceeded has been raised.
NoException ==
    [raised |-> FALSE, ts |-> DateTime(0, 0, 0, 0, 0), reset_ts |-> DateTime(0, 0, 0, 0, 0)]
IdleRL == rl_exc = NoException

\* An empty database and no run of the exporter.
EmptyDb ==
    [raw_activity_summary |-> <<>>, raw_activity_details |-> <<>>, activity |-> <<>>]
NoRun ==
    [command |-> "", strategy |-> "", summaries |-> <<>>, details |-> <<>>,
     out |-> NoOutcome, writes |-> <<>>]
IdleEX == db = EmptyDb /\ ex_run = NoRun /\ ex_runs = 0

\* No call of a client yet.
NoClientCall == [method |-> "", args |-> <<>>]
IdleCL == cl_call = NoClientCall /\ cl_out = NoOutcome /\ cl_http = <<>> /\ cl_calls = 0

\* The generator of the summary pages has not been created.
NoGenerator ==
    [pc |-> "none", i |-> 0, pages |-> <<>>, requests |-> <<>>, yielded |-> <<>>,
     exc |-> NoException, answer |-> "", out |-> NoOutcome, limits |-> 0]
IdlePG == pg = NoGenerator /\ pg_now = DateTime(0, 0, 0, 0, 0)

IdleTools == IdleEX /\ IdleCL /\ IdlePG

InitMT ==
    /\ \E n \in 0..MaxLen :
         \E e \in ElapsedStreams(n), mv \in MovingStreams(n) :
            data = <<Stream("moving", mv, n), Stream("time", e, n)>>
    /\ NewCache
    /\ IdleRL
    /\ IdleTools
    /\ IdleMT
    /\ IdleSE
    /\ IdleSR
    /\ IdleGC

NextMT == GetMovingTimeStream

SpecMT == InitMT /\ [][NextMT]_vars

(***************************************************************************)
(* ActivityDetailsResponse                                                 *)
(***************************************************************************)
MaxEfforts == 3    \* most segment efforts of an activity
MaxFilter == 2     \* most keys of a segments_filter
MaxSegmentCalls == 1   \* calls of get_segment_efforts that are counted

\* Names are sequences of characters.  str.lower() maps every upper-case
\* letter to its lower-case letter and keeps every other character.
UpperLetters == <<"A", "E", "I", "L", "V">>
LowerLetters == <<"a", "e", "i", "l", "v">>

LowerChar(c) ==
    IF \E k \in 1..Len(UpperLetters) : UpperLetters[k] = c
    THEN LowerLetters[CHOOSE k \in 1..Len(UpperLetters) : UpperLetters[k] = c]
    ELSE c

\* A comparison of names that forgets lower().
lower_identity(name) == name

lower(name) == [k \in 1..Len(name) |-> LowerChar(name[k])]

\* "not segments_filter" that is true of None only.
NotFilter_onlyNone(segments_filter) == segments_filter.none

\* "not segments_filter": None or the empty list.
NotFilter(segments_filter) ==
    segments_filter.none \/ segments_filter.keys = <<>>

\* self.data.get("segment_efforts", [])
SegmentEfforts(a) == IF a.has_efforts THEN a.segment_efforts ELSE <<>>

\* The first loop: segment id -> indices of its efforts, in list order.
RECURSIVE CollectIndices(_, _, _)
CollectIndices(efforts, i, acc) ==
    IF i >= Len(efforts) THEN acc
    ELSE LET sid == At(efforts, i).segment.id IN
         CollectIndices(efforts, i + 1,
            [x \in DOMAIN acc \cup {sid} |->
                IF x = sid
                THEN (IF sid \in DOMAIN acc THEN Append(acc[sid], i) ELSE <<i>>)
                ELSE acc[x]])

_id_and_indices(efforts) == CollectIndices(efforts, 0, [x \in {} |-> <<>>])

\* dict.get(key): the empty list stands for None (both are falsy and the
\* code goes on only with a non-empty list).
DictGet(dct, k) == IF k \in DOMAIN dct THEN dct[k] ELSE <<>>

\* The loop over the indices of one key, from the n-th index on.
RECURSIVE IndexLoop(_, _, _, _, _, _)
IndexLoop(efforts, ixs, n, key, return_data, found) ==
    IF n > Len(ixs)
    THEN (IF found THEN Return(return_data)
          ELSE Raise("SegmentEffortNotFound", <<key[1], key[2]>>))
    ELSE LET _data == At(efforts, ixs[n]) IN
         IF lower(_data.name) # lower(key[2])
         THEN Raise("SegmentNameMismatch", <<key[1], key[2], _data.name>>)
         ELSE IndexLoop(efforts, ixs, n + 1, key,
                        Append(return_data, _data), TRUE)

\* A body that stops at the first effort of the segment.
FilterLoopBody_firstOnly(efforts, ids, key, return_data) ==
    IF DictGet(ids, key[1]) = <<>>
    THEN Raise("SegmentEffortNotFound", <<key[1], key[2]>>)
    ELSE IndexLoop(efforts, SubSeq(DictGet(ids, key[1]), 1, 1), 1, key,
                   return_data, FALSE)

\* A body that passes over a key whose id is unknown.
FilterLoopBody_skipUnknown(efforts, ids, key, return_data) ==
    IF DictGet(ids, key[1]) = <<>>
    THEN Return(return_data)
    ELSE IndexLoop(efforts, DictGet(ids, key[1]), 1, key, return_data, FALSE)

\* A body that reports the name of the first effort of the segment.
FilterLoopBody_actualOfFirst(efforts, ids, key, return_data) ==
    LET r == IndexLoop(efforts, DictGet(ids, key[1]), 1, key, return_data,
                       FALSE)
    IN  IF DictGet(ids, key[1]) = <<>>
        THEN Raise("SegmentEffortNotFound", <<key[1], key[2]>>)
        ELSE IF r.kind = "raise" /\ r.exc = "SegmentNameMismatch"
        THEN Raise("SegmentNameMismatch",
                   <<key[1], key[2],
                     At(efforts, DictGet(ids, key[1])[1]).name>>)
        ELSE r

\* The body of the loop over segments_filter, for one key.
FilterLoopBody(efforts, ids, key, return_data) ==
    IF DictGet(ids, key[1]) = <<>>
    THEN Raise("SegmentEffortNotFound", <<key[1], key[2]>>)
    ELSE IndexLoop(efforts, DictGet(ids, key[1]), 1, key, return_data, FALSE)

\* A loop that, when a key fails after others matched, returns the records
\* of the keys before it.
RECURSIVE FilterLoop_keepsEarlier(_, _, _, _, _)
FilterLoop_keepsEarlier(efforts, ids, keys, k, return_data) ==
    IF k > Len(keys) THEN Return(return_data)
    ELSE LET r == FilterLoopBody(efforts, ids, keys[k], return_data) IN
         IF r.kind = "raise"
         THEN (IF return_data = <<>> THEN r ELSE Return(return_data))
         ELSE FilterLoop_keepsEarlier(efforts, ids, keys, k + 1, r.value)

\* The loop over segments_filter, from the k-th key on.
RECURSIVE FilterLoop(_, _, _, _, _)
FilterLoop(efforts, ids, keys, k, return_data) ==
    IF k > Len(keys) THEN Return(return_data)
    ELSE LET r == FilterLoopBody(efforts, ids, keys[k], return_data) IN
         IF r.kind = "raise" THEN r
         ELSE FilterLoop(efforts, ids, keys, k + 1, r.value)

get_segment_efforts(a, segments_filter) ==
    IF NotFilter(segments_filter)
    THEN Return(SegmentEfforts(a))
    ELSE FilterLoop(SegmentEfforts(a), _id_and_indices(SegmentEfforts(a)),
                    segments_filter.keys, 1, <<>>)

(***************************************************************************)
(* Payloads and calls of the segment specification.                        *)
(***************************************************************************)
SegmentNames == {<<"V", "i", "a">>, <<"v", "I", "A">>, <<"L", "e", "v">>}
SegmentIds == {8167025, 38355448}
UnknownId == 999

\* An effort dict: its own id, its name and the id of its segment.
Effort(eid, name, sid) == [id |-> eid, name |-> name, segment |-> [id |-> sid]]

EffortLists(n) ==
    {[k \in 1..n |-> Effort(k, nm[k], sid[k])] :
        nm \in [1..n -> SegmentNames], sid \in [1..n -> SegmentIds]}

FilterKeys == (SegmentIds \cup {UnknownId}) \X SegmentNames

Filters ==
    {[none |-> TRUE, keys |-> <<>>]} \cup
    {[none |-> FALSE, keys |-> ks] :
        ks \in UNION {[1..n -> FilterKeys] : n \in 0..MaxFilter}}

NoFilter == [none |-> TRUE, keys |-> <<>>]

GetSegmentEfforts ==
    /\ se_calls < MaxSegmentCalls
    /\ se_calls' = se_calls + 1
    /\ \E f \in Filters :
         /\ se_filter' = f
         /\ se_out' = get_segment_efforts(activity, f)
    /\ UNCHANGED <<activity, data, validated, validate_log, lru_newer,
                   mtVars, srVars, gcVars, rlVars, toolVars>>

InitSE ==
    /\ \/ activity = [has_efforts |-> FALSE, segment_efforts |-> <<>>]
       \/ \E n \in 0..MaxEfforts : \E l \in EffortLists(n) :
            activity = [has_efforts |-> TRUE, segment_efforts |-> l]
    /\ se_filter = NoFilter
    /\ se_out = NoOutcome
    /\ se_calls = 0
    /\ data = <<>>
    /\ NewCache
    /\ IdleRL
    /\ IdleTools
    /\ IdleMT
    /\ IdleSR
    /\ IdleGC

NextSE == GetSegmentEfforts

SpecSE == InitSE /\ [][NextSE]_vars

(***************************************************************************)
(* Properties of get_moving_time_stream.                                   *)
(***************************************************************************)
ElapsedOf(d) == StreamDataNamed(d, "time", 1, <<>>)
MovingOf(d) == StreamDataNamed(d, "moving", 1, <<>>)
MTReturned == mt_out.kind = "return"

NonDecreasing(s) == \A k \in 2..Len(s) : s[k - 1] <= s[k]

\* The step the documentation describes for index i, on a working array w.
ClaimedStep(w, mv, i) ==
    LET diff == At(w, i) - At(w, i - 1) IN
    IF At(mv, i) = FALSE /\ diff >= 13
    THEN [k \in 1..Len(w) |-> IF k - 1 >= i THEN w[k] - diff ELSE w[k]]
    ELSE w

\* The described steps applied for every index from 2 up to i.
RECURSIVE ClaimedUpTo(_, _, _)
ClaimedUpTo(e, mv, i) ==
    IF i < 2 THEN e ELSE ClaimedStep(ClaimedUpTo(e, mv, i - 1), mv, i)

C2_NeverAboveElapsed ==
    MTReturned =>
      \A k \in 1..Len(mt_out.value) : mt_out.value[k] <= ElapsedOf(data)[k]

C2_Witness ==
    /\ MTReturned
    /\ ~NonDecreasing(ElapsedOf(data))
    /\ \E k \in 1..Len(mt_out.value) : mt_out.value[k] < ElapsedOf(data)[k]
    /\ \E k \in 3..Len(mt_out.value) :
          /\ MovingOf(data)[k] = FALSE
          /\ ElapsedOf(data)[k] < ElapsedOf(data)[k - 1]

\* C3: when the elapsed-time stream is non-decreasing, the returned
\* moving-time stream is non-decreasing, whatever the moving stream is.
C3_NonDecreasing ==
    (MTReturned /\ NonDecreasing(ElapsedOf(data)))
      => NonDecreasing(mt_out.value)

C3_Witness ==
    /\ MTReturned
    /\ NonDecreasing(ElapsedOf(data))
    /\ Len(mt_out.value) = MaxLen
    /\ \E k \in 3..(MaxLen - 1) :
          /\ mt_out.value[k] = mt_out.value[k - 1]
          /\ ElapsedOf(data)[k] - ElapsedOf(data)[k - 1] = 13
          /\ mt_out.value[k + 1] > mt_out.value[k]

\* C4: no pause is detected at index 0 or 1: the first two samples are
\* returned as they are, a stream of one or two samples is returned equal
\* to the elapsed-time stream, and a stream whose samples from index 2 on
\* are all moving is returned equal to the elapsed-time stream whatever the
\* flags and gaps at indices 0 and 1.
C4_NoPauseBeforeIndex2 ==
    MTReturned =>
      LET e == ElapsedOf(data)
          mv == MovingOf(data)
          r == mt_out.value
      IN  /\ Len(e) <= 2 => r = e
          /\ \A k \in 1..Len(e) : k <= 2 => r[k] = e[k]
          /\ (\A i \in 2..(Len(e) - 1) : At(mv, i) = TRUE) => r = e

C4_Witness ==
    /\ MTReturned
    /\ Len(ElapsedOf(data)) >= 3
    /\ At(MovingOf(data), 0) = FALSE
    /\ At(MovingOf(data), 1) = FALSE
    /\ At(ElapsedOf(data), 1) - At(ElapsedOf(data), 0) = 13
    /\ \A i \in 2..(Len(ElapsedOf(data)) - 1) : At(MovingOf(data), i) = TRUE
    /\ mt_out.value = ElapsedOf(data)

\* C5: a call of get_moving_time_stream leaves the streams held by the
\* response as they were, returns a list as long as the elapsed-time
\* stream, and returns what the call before it returned.
C5_WorksOnCopy ==
    [][GetMovingTimeStream =>
         /\ data' = data
         /\ mt_out'.kind = "return" =>
               Len(mt_out'.value) = Len(ElapsedOf(data))
         /\ mt_out.kind # "none" => mt_out' = mt_out]_vars

C5_Witness ==
    /\ mt_calls = 2
    /\ MTReturned
    /\ mt_out.value # ElapsedOf(data)

(***************************************************************************)
(* Properties of get_segment_efforts.                                      *)
(***************************************************************************)
CasePairs == {{"A", "a"}, {"E", "e"}, {"I", "i"}, {"L", "l"}, {"V", "v"}}

\* Two names that differ at most in the case of their letters.
SameUpToCase(a, b) ==
    /\ Len(a) = Len(b)
    /\ \A k \in 1..Len(a) : a[k] = b[k] \/ {a[k], b[k]} \in CasePairs

RawEfforts == SegmentEfforts(activity)
Keys == se_filter.keys
SECalled == se_calls > 0
Filtered == SECalled /\ ~se_filter.none /\ Keys # <<>>
SERaised(e) == se_out.kind = "raise" /\ se_out.exc = e

\* The raw records of a segment id, in raw order.
WithId(sid) == SelectSeq(RawEfforts, LAMBDA e : e.segment.id = sid)

\* The raw records of a key's segment id whose name is not the key's name.
Differing(key) ==
    SelectSeq(WithId(key[1]), LAMBDA e : ~SameUpToCase(e.name, key[2]))

IdKnown(key) == WithId(key[1]) # <<>>
KeyResolves(key) == IdKnown(key) /\ Differing(key) = <<>>

RECURSIVE ConcatGroups(_, _)
ConcatGroups(keys, n) ==
    IF n = 0 THEN <<>> ELSE ConcatGroups(keys, n - 1) \o WithId(keys[n][1])

RECURSIVE CountSum(_, _)
CountSum(keys, n) ==
    IF n = 0 THEN 0
    ELSE CountSum(keys, n - 1)
         + Cardinality({i \in 1..Len(RawEfforts) :
                          RawEfforts[i].segment.id = keys[n][1]})

\* C6: with a non-empty list of keys that all match, the call returns the
\* records of the first key's segment id, then those of the second key's,
\* and so on, each group in raw order; the length of the result is the sum
\* over the keys of the number of records with the key's id.
C6_ConcatenationInKeyOrder ==
    (Filtered /\ \A k \in 1..Len(Keys) : KeyResolves(Keys[k]))
      => /\ se_out = Return(ConcatGroups(Keys, Len(Keys)))
         /\ Len(se_out.value) = CountSum(Keys, Len(Keys))

C6_Witness ==
    /\ Filtered
    /\ se_out.kind = "return"
    /\ Len(Keys) = 2
    /\ Keys[1][1] # Keys[2][1]
    /\ Len(se_out.value) = 3
    /\ se_out.value[1].id = 2
    /\ se_out.value[2].id = 1
    /\ se_out.value[3].id = 3

\* C7 as stated: the call raises SegmentEffortNotFound whenever some key has
\* an id that no raw record carries, wherever the key stands.
C7_AsStated_AlwaysNotFound ==
    (Filtered /\ \E k \in 1..Len(Keys) : ~IdKnown(Keys[k]))
      => SERaised("SegmentEffortNotFound")

\* C7: the call raises SegmentEffortNotFound, with the id and the name of
\* the key, when a key has an id that no raw record carries and every key
\* before it matches.
C7_NotFoundAfterMatchingKeys ==
    Filtered =>
      \A k \in 1..Len(Keys) :
        (~IdKnown(Keys[k]) /\ \A j \in 1..(k - 1) : KeyResolves(Keys[j]))
          => se_out = Raise("SegmentEffortNotFound", <<Keys[k][1], Keys[k][2]>>)

C7_Witness ==
    /\ Filtered
    /\ Len(Keys) = 2
    /\ KeyResolves(Keys[1])
    /\ ~IdKnown(Keys[2])
    /\ se_out = Raise("SegmentEffortNotFound", <<UnknownId, Keys[2][2]>>)

\* C8: when every key has a known id and names equal to the requested name
\* up to letter case, the call succeeds, and no error is ever raised for a
\* key of which that is true; when the first key that does not
\* match has a known id, so that some record of that id has a differing
\* name, the call raises SegmentNameMismatch for that key, also when other
\* records of that id have the requested name.
C8_CaseInsensitiveNames ==
    Filtered =>
      /\ (\A k \in 1..Len(Keys) : KeyResolves(Keys[k])) => se_out.kind = "return"
      /\ se_out.kind = "raise" => ~KeyResolves(<<se_out.args[1], se_out.args[2]>>)
      /\ \A k \in 1..Len(Keys) :
           (/\ \A j \in 1..(k - 1) : KeyResolves(Keys[j])
            /\ IdKnown(Keys[k])
            /\ Differing(Keys[k]) # <<>>)
             => /\ SERaised("SegmentNameMismatch")
                /\ se_out.args[1] = Keys[k][1]
                /\ se_out.args[2] = Keys[k][2]

C8_Witness ==
    /\ Filtered
    /\ Len(Keys) = 1
    /\ Len(WithId(Keys[1][1])) >= 2
    /\ WithId(Keys[1][1])[1].name # Keys[1][2]
    /\ SameUpToCase(WithId(Keys[1][1])[1].name, Keys[1][2])
    /\ Differing(Keys[1]) # <<>>
    /\ SERaised("SegmentNameMismatch")

\* C9 as stated: a SegmentNameMismatch carries as actual_name the name of
\* the first raw record that has the id.
C9_AsStated_ActualIsFirstWithId ==
    SERaised("SegmentNameMismatch")
      => se_out.args[3] = WithId(se_out.args[1])[1].name

\* C9: a SegmentNameMismatch carries the id and the requested name of the
\* first key that does not match and, as actual_name, the name of the first
\* raw record of that id whose name differs from the requested name.
C9_ActualIsFirstDiffering ==
    SERaised("SegmentNameMismatch") =>
      \E k \in 1..Len(Keys) :
        /\ \A j \in 1..(k - 1) : KeyResolves(Keys[j])
        /\ Differing(Keys[k]) # <<>>
        /\ se_out.args = <<Keys[k][1], Keys[k][2], Differing(Keys[k])[1].name>>

C9_Witness ==
    /\ SERaised("SegmentNameMismatch")
    /\ se_out.args[3] # WithId(se_out.args[1])[1].name
    /\ ~SameUpToCase(se_out.args[3], se_out.args[2])

\* C10: without lookup keys (None or the empty list) the call returns the
\* raw effort records as they are and in their order, the empty list when
\* the activity has none, and raises nothing.
C10_NoFilterReturnsAll ==
    (SECalled /\ (se_filter.none \/ Keys = <<>>))
      => se_out = Return(IF activity.has_efforts
                         THEN activity.segment_efforts ELSE <<>>)

C10_Witness ==
    /\ SECalled
    /\ ~se_filter.none
    /\ Keys = <<>>
    /\ se_out.kind = "return"
    /\ Len(se_out.value) = MaxEfforts


(***************************************************************************)
(* StreamsResponse: the stream accessors and the cache of the validation.  *)
(***************************************************************************)
MaxStreams == 2    \* most streams of a response
MaxSamples == 2    \* longest stream of these payloads

\* A sample that may be null: None, or a number.
None == [null |-> TRUE, v |-> 0]
Some(x) == [null |-> FALSE, v |-> x]

\* functools.lru_cache without arguments keeps 128 entries, for all the
\* responses together.
LruMaxSize == 128

\* The accessor of a stream type: get_elapsed_time_stream ("time"),
\* get_heartrate_stream, get_altitude_stream, ...: each is
\* _get_stream_by_name with its type.
AccessStream(name) ==
    /\ sr_calls < MaxCalls
    /\ sr_calls' = sr_calls + 1
    /\ sr_name' = name
    /\ LET r == _get_stream_by_name(data, validated, name) IN
         /\ sr_out' = r
         /\ validated' = (validated \/ r.exc # "StreamSizeError")
    /\ validate_log' = ValidateLogAfter(data, validated, validate_log)
    /\ lru_newer' = 0
    /\ UNCHANGED <<data, mtVars, seVars, gcVars, rlVars, toolVars>>

\* Another StreamsResponse is validated: its entry enters the cache, and
\* the least recently used entry leaves a full cache.
OtherResponseValidated ==
    /\ validated
    /\ IF lru_newer + 1 >= LruMaxSize
       THEN validated' = FALSE /\ lru_newer' = 0
       ELSE validated' = validated /\ lru_newer' = lru_newer + 1
    /\ UNCHANGED <<data, validate_log, mtVars, seVars, srVars, gcVars, rlVars, toolVars>>

(***************************************************************************)
(* Payloads of the accessor specifications.                                *)
(***************************************************************************)
PayloadTypes == {"time", "heartrate"}
AccessorTypes == {"time", "heartrate", "altitude"}
Samples == {None, Some(60)}

SampleLists == UNION {[1..n -> Samples] : n \in 0..MaxSamples}

PayloadStreams ==
    {Stream(t, l, n) : t \in PayloadTypes, l \in SampleLists, n \in 0..MaxSamples}

InitSR ==
    /\ \E n \in 1..MaxStreams : data \in [1..n -> PayloadStreams]
    /\ NewCache
    /\ IdleRL
    /\ IdleTools
    /\ IdleSR
    /\ IdleMT
    /\ IdleSE
    /\ IdleGC

NextSR == \E name \in AccessorTypes : AccessStream(name)

SpecSR == InitSR /\ [][NextSR]_vars

InitLRU ==
    /\ \E l \in SampleLists, n \in 0..MaxSamples : data = <<Stream("time", l, n)>>
    /\ NewCache
    /\ IdleRL
    /\ IdleTools
    /\ IdleSR
    /\ IdleMT
    /\ IdleSE
    /\ IdleGC

NextLRU ==
    \/ \E name \in AccessorTypes : AccessStream(name)
    \/ OtherResponseValidated

SpecLRU == InitLRU /\ [][NextLRU]_vars

(***************************************************************************)
(* Properties of the StreamsResponse accessors.                            *)
(***************************************************************************)
SRCalled == sr_calls > 0
SRRaised(e) == sr_out.kind = "raise" /\ sr_out.exc = e
DeclaredSize == data[1].original_size
WrongSizes == {k \in 1..Len(data) : Len(data[k].data) # DeclaredSize}
FirstWrong == CHOOSE k \in WrongSizes : \A j \in WrongSizes : k <= j
Present(name) == \E k \in 1..Len(data) : data[k].type = name
LastOfType(name) ==
    CHOOSE k \in 1..Len(data) :
      data[k].type = name /\ \A j \in (k + 1)..Len(data) : data[j].type # name

\* C11: when some stream's length differs from the declared original size,
\* an accessor raises StreamSizeError with the type of the first such stream
\* in response order, its length and the declared original size.
C11_SizeErrorNamesFirstOffender ==
    (SRCalled /\ WrongSizes # {})
      => sr_out = Raise("StreamSizeError",
                        <<data[FirstWrong].type, Len(data[FirstWrong].data),
                          DeclaredSize>>)

C11_Witness ==
    /\ SRCalled
    /\ Len(data) = 2
    /\ WrongSizes = {2}
    /\ sr_name = data[1].type
    /\ data[2].type # sr_name
    /\ Len(data[2].data) # DeclaredSize
    /\ SRRaised("StreamSizeError")
    /\ sr_out.args = <<data[2].type, Len(data[2].data), DeclaredSize>>

\* C12: the validation does not run when the response is constructed, it
\* runs on the first stream access, and no run follows a run that returned.
C12_ValidationRunsOnce ==
    /\ sr_calls = 0 => validate_log = <<>>
    /\ sr_calls >= 1 => Len(validate_log) >= 1
    /\ \A k \in 1..Len(validate_log) :
         validate_log[k] = "returned" => k = Len(validate_log)

\* C19: a stream type that is absent from a response of the right sizes
\* raises StreamNotFound with that type; a stream type that is present is
\* never reported as not found, and is returned as it is.
C19_PresentNeverNotFound ==
    SRCalled =>
      /\ (~Present(sr_name) /\ WrongSizes = {})
           => sr_out = Raise("StreamNotFound", <<sr_name>>)
      /\ Present(sr_name) => ~SRRaised("StreamNotFound")
      /\ (Present(sr_name) /\ WrongSizes = {})
           => sr_out = Return(data[LastOfType(sr_name)].data)


(***************************************************************************)
(* Garmin ActivityDetailsResponse                                          *)
(* (src/libs/garmin-connect-client/garmin_connect_client/responses.py).    *)
(***************************************************************************)
MaxRecords == 2        \* most raw records of a payload
MaxGarminCalls == 2    \* accessor calls on one response that are counted

\* The if/elif chain of _parse_relevant_metric_descriptors: vendor key and
\* the name under which its metricsIndex is kept.
KnownKeys ==
    << <<"sumElapsedDuration", "elapsed_time_stream">>,
       <<"sumMovingDuration", "moving_time_stream">>,
       <<"sumDuration", "non_paused_time_stream">>,
       <<"directTimestamp", "ts_stream">>,
       <<"sumDistance", "distance_stream">>,
       <<"directSpeed", "speed_stream">>,
       <<"directLatitude", "lat_stream">>,
       <<"directLongitude", "lng_stream">>,
       <<"directElevation", "altitude_stream">>,
       <<"directHeartRate", "heartrate_stream">> >>

\* dict[key] = value
DictSet(dct, k, v) == [x \in DOMAIN dct \cup {k} |-> IF x = k THEN v ELSE dct[x]]

EmptyDict == [x \in {} |-> 0]

\* A chain that keeps the first metricsIndex of a key.
DescriptorStep_firstWins(map, m) ==
    IF \E j \in 1..Len(KnownKeys) : KnownKeys[j][1] = m.key
    THEN LET j == CHOOSE j \in 1..Len(KnownKeys) : KnownKeys[j][1] = m.key IN
         IF KnownKeys[j][2] \in DOMAIN map THEN map
         ELSE DictSet(map, KnownKeys[j][2], m.metricsIndex)
    ELSE map

\* The body of the loop over the descriptors.
DescriptorStep(map, m) ==
    IF \E j \in 1..Len(KnownKeys) : KnownKeys[j][1] = m.key
    THEN LET j == CHOOSE j \in 1..Len(KnownKeys) : KnownKeys[j][1] = m.key IN
         DictSet(map, KnownKeys[j][2], m.metricsIndex)
    ELSE map

RECURSIVE DescriptorLoop(_, _, _)
DescriptorLoop(ds, k, map) ==
    IF k > Len(ds) THEN map
    ELSE DescriptorLoop(ds, k + 1, DescriptorStep(map, ds[k]))

\* A parser that takes the place in the descriptor list for the index.
_parse_relevant_metric_descriptors_byListOrder(ds) ==
    LET known(k) == \E j \in 1..Len(KnownKeys) : KnownKeys[j][1] = ds[k].key
        name(k) == KnownKeys[CHOOSE j \in 1..Len(KnownKeys) :
                               KnownKeys[j][1] = ds[k].key][2]
        last(n) == CHOOSE k \in 1..Len(ds) :
                     /\ known(k) /\ name(k) = n
                     /\ \A h \in (k + 1)..Len(ds) : ~(known(h) /\ name(h) = n)
    IN  [n \in {name(k) : k \in {h \in 1..Len(ds) : known(h)}} |-> last(n) - 1]

_parse_relevant_metric_descriptors(ds) == DescriptorLoop(ds, 1, EmptyDict)

\* _all_stream_names, without the leading underscore.
_all_stream_names ==
    <<"ts_stream", "elapsed_time_stream", "non_paused_time_stream",
      "moving_time_stream", "distance_stream", "speed_stream", "lat_stream",
      "lng_stream", "altitude_stream", "heartrate_stream">>

StreamNames == {_all_stream_names[k] : k \in 1..Len(_all_stream_names)}

\* The appends of the loop over the records, in their order: the stream that
\* is appended to and the name whose metricsIndex is read.
FillOrder_latFromLng ==
    << <<"elapsed_time_stream", "elapsed_time_stream">>,
       <<"moving_time_stream", "moving_time_stream">>,
       <<"non_paused_time_stream", "non_paused_time_stream">>,
       <<"ts_stream", "ts_stream">>,
       <<"distance_stream", "distance_stream">>,
       <<"speed_stream", "speed_stream">>,
       <<"lat_stream", "lng_stream">>,
       <<"lng_stream", "lng_stream">>,
       <<"altitude_stream", "altitude_stream">>,
       <<"heartrate_stream", "heartrate_stream">> >>

FillOrder ==
    << <<"elapsed_time_stream", "elapsed_time_stream">>,
       <<"moving_time_stream", "moving_time_stream">>,
       <<"non_paused_time_stream", "non_paused_time_stream">>,
       <<"ts_stream", "ts_stream">>,
       <<"distance_stream", "distance_stream">>,
       <<"speed_stream", "speed_stream">>,
       <<"lat_stream", "lat_stream">>,
       <<"lng_stream", "lng_stream">>,
       <<"altitude_stream", "altitude_stream">>,
       <<"heartrate_stream", "heartrate_stream">> >>

\* The appends of one record x, from the k-th on: a KeyError when a name has
\* no metricsIndex.
RECURSIVE FillFrom(_, _, _, _)
FillFrom(streams, map, x, k) ==
    IF k > Len(FillOrder) THEN Return(streams)
    ELSE LET target == FillOrder[k][1]
             source == FillOrder[k][2]
         IN  IF source \notin DOMAIN map THEN Raise("KeyError", <<source>>)
             ELSE FillFrom([streams EXCEPT ![target] = Append(@, At(x, map[source]))],
                           map, x, k + 1)

RECURSIVE RecordLoop(_, _, _, _)
RecordLoop(streams, map, records, i) ==
    IF i > Len(records) THEN Return(streams)
    ELSE LET r == FillFrom(streams, map, records[i].metrics, 1) IN
         IF r.kind = "raise" THEN r
         ELSE RecordLoop(r.value, map, records, i + 1)

_parse_relevant_metrics(map, records) ==
    RecordLoop([n \in StreamNames |-> <<>>], map, records, 1)

\* __init__ with _parse_raw_data: the response, or the exception that ends
\* the construction.
GarminInit(payload, do_keep_raw_data) ==
    LET map == _parse_relevant_metric_descriptors(payload.metricDescriptors)
        r == _parse_relevant_metrics(map, payload.activityDetailMetrics)
    IN  IF r.kind = "raise"
        THEN [state |-> "raised", exc |-> r.exc, args |-> r.args,
              kept |-> FALSE,
              original_dataset_size |-> payload.totalMetricsCount,
              streams_size |-> payload.metricsCount,
              map |-> map, streams |-> <<>>]
        ELSE [state |-> "built", exc |-> "", args |-> <<>>,
              kept |-> do_keep_raw_data,
              original_dataset_size |-> payload.totalMetricsCount,
              streams_size |-> payload.metricsCount,
              map |-> map, streams |-> r.value]

\* The four accessors that take do_remove_none_values.
NoneRemovers == {"speed_stream", "lat_stream", "lng_stream", "heartrate_stream"}

\* An accessor that keeps the filtered list as the stream.
GarminGet_storesFiltered(stream, do_remove_none_values) ==
    LET out == IF do_remove_none_values
               THEN SelectSeq(stream, LAMBDA x : ~x.null) ELSE stream
    IN  [out |-> Return(out), stored |-> out]

\* get_<name>: the returned list and the stream held afterwards.
GarminGet(stream, do_remove_none_values) ==
    IF do_remove_none_values
    THEN [out |-> Return(SelectSeq(stream, LAMBDA x : ~x.null)), stored |-> stream]
    ELSE [out |-> Return(stream), stored |-> stream]

GarminCalls ==
    {[name |-> n, do_remove_none_values |-> FALSE] : n \in StreamNames}
    \cup {[name |-> n, do_remove_none_values |-> TRUE] : n \in NoneRemovers}

Construct ==
    /\ gc.state = "none"
    /\ \E keep \in BOOLEAN : gc' = GarminInit(gc_payload, keep)
    /\ UNCHANGED <<gc_payload, gc_call, gc_out, gc_calls>>
    /\ UNCHANGED <<data, validated, validate_log, lru_newer, mtVars, seVars, srVars,
                   rlVars, toolVars>>

GarminAccess ==
    /\ gc.state = "built"
    /\ gc_calls < MaxGarminCalls
    /\ gc_calls' = gc_calls + 1
    /\ \E c \in GarminCalls :
         LET r == GarminGet(gc.streams[c.name], c.do_remove_none_values) IN
           /\ gc_call' = c
           /\ gc_out' = r.out
           /\ gc' = [gc EXCEPT !.streams[c.name] = r.stored]
    /\ UNCHANGED gc_payload
    /\ UNCHANGED <<data, validated, validate_log, lru_newer, mtVars, seVars, srVars,
                   rlVars, toolVars>>

(***************************************************************************)
(* Payloads of the Garmin specification.                                   *)
(***************************************************************************)
\* Two layouts of a record of eleven metrics: the known keys at indices
\* 1..10 with another metric at index 0, or at indices 9..0 with another
\* metric at index 10.
RecordWidth == Len(KnownKeys) + 1
Layouts ==
    {[j \in 1..Len(KnownKeys) |-> j], [j \in 1..Len(KnownKeys) |-> Len(KnownKeys) - j]}

Descriptor(key, index) == [key |-> key, metricsIndex |-> index]

Reverse(q) == [k \in 1..Len(q) |-> q[Len(q) + 1 - k]]
RemoveAt(q, k) == SubSeq(q, 1, k - 1) \o SubSeq(q, k + 1, Len(q))

\* The descriptors of all the known keys, in the order of the chain.
FullDescriptors(layout) ==
    [j \in 1..Len(KnownKeys) |-> Descriptor(KnownKeys[j][1], layout[j])]

\* Descriptor lists: complete, with a key the parser does not know, with
\* one known key missing, with a second entry for one known key.
DescriptorLists ==
    LET base == UNION {{FullDescriptors(l), Reverse(FullDescriptors(l))} : l \in Layouts}
        spare(q) == IF q[1].metricsIndex \in {1, Len(KnownKeys)} THEN 0
                    ELSE Len(KnownKeys)
    IN  base
        \cup {<<Descriptor("directPower", spare(q))>> \o q : q \in base}
        \cup {RemoveAt(q, k) : q \in base, k \in 1..Len(KnownKeys)}
        \cup {<<Descriptor(q[k].key, spare(q))>> \o q : q \in base, k \in 1..Len(KnownKeys)}
        \cup {Append(q, Descriptor(q[k].key, spare(q))) : q \in base, k \in 1..Len(KnownKeys)}

\* Raw records: every metric a number, latitude and longitude null (at
\* either layout's indices), or every metric null.
RowKinds == {"full", "nogps", "nulls"}

Row(kind, r) ==
    [metrics |->
       [p \in 1..RecordWidth |->
          IF kind = "nulls" \/ (kind = "nogps" /\ (p - 1) \in {2, 3, 7, 8})
          THEN None
          ELSE Some((r - 1) * RecordWidth + (p - 1))]]

RecordLists ==
    UNION {{[r \in 1..n |-> Row(kinds[r], r)] : kinds \in [1..n -> RowKinds]} :
             n \in 0..MaxRecords}

Payloads ==
    {[totalMetricsCount |-> Len(recs) + sz[1] + sz[2], metricsCount |-> Len(recs) + sz[1],
      metricDescriptors |-> ds, activityDetailMetrics |-> recs] :
        ds \in DescriptorLists, recs \in RecordLists,
        sz \in {<<0, 0>>, <<0, 1>>, <<1, 0>>}}

InitGC ==
    /\ gc_payload \in Payloads
    /\ gc = NoGarmin
    /\ gc_call = NoCall
    /\ gc_out = NoOutcome
    /\ gc_calls = 0
    /\ data = <<>>
    /\ NewCache
    /\ IdleRL
    /\ IdleTools
    /\ IdleMT
    /\ IdleSE
    /\ IdleSR

NextGC == Construct \/ GarminAccess

SpecGC == InitGC /\ [][NextGC]_vars


(***************************************************************************)
(* Properties of the Garmin ActivityDetailsResponse.                       *)
(***************************************************************************)
GDescriptors == gc_payload.metricDescriptors
GRecords == gc_payload.activityDetailMetrics
GBuilt == gc.state = "built"
GInitDone == gc.state # "none"

UniqueKeys(ds) ==
    \A h, k \in 1..Len(ds) : ds[h].key = ds[k].key => h = k

Swap(q, h, k) ==
    [x \in 1..Len(q) |-> IF x = h THEN q[k] ELSE IF x = k THEN q[h] ELSE q[x]]

Rotate(q, n) == SubSeq(q, n + 1, Len(q)) \o SubSeq(q, 1, n)

\* The transpositions, the rotations and the reversal of a list.
Rearrangements(q) ==
    {Swap(q, h, k) : h, k \in 1..Len(q)}
    \cup {Rotate(q, n) : n \in 0..Len(q)}
    \cup {Reverse(q)}

VendorKeyOf(name) ==
    KnownKeys[CHOOSE j \in 1..Len(KnownKeys) : KnownKeys[j][2] = name][1]

EntriesOf(name) ==
    LET key == VendorKeyOf(name) IN
    {k \in 1..Len(GDescriptors) : GDescriptors[k].key = key}

\* The metricsIndex a stream is read at: that of the last entry of its key.
PositionOf(name) ==
    LET entries == EntriesOf(name) IN
    GDescriptors[CHOOSE k \in entries : \A h \in entries : h <= k].metricsIndex

RECURSIVE NonNulls(_)
NonNulls(q) ==
    IF q = <<>> THEN <<>>
    ELSE IF Head(q).null THEN NonNulls(Tail(q))
    ELSE <<Head(q)>> \o NonNulls(Tail(q))

\* C13: with unique keys, a response built from the same records and the
\* descriptors in another order (any two entries exchanged, the list rotated
\* or reversed) ends the same way and has the same ten streams.
C13_DescriptorOrderIrrelevant ==
    (GInitDone /\ gc_calls = 0 /\ UniqueKeys(GDescriptors)) =>
      \A q \in Rearrangements(GDescriptors) :
        GarminInit([gc_payload EXCEPT !.metricDescriptors = q], gc.kept) = gc

C13_Witness ==
    /\ GBuilt
    /\ gc_calls = 0
    /\ UniqueKeys(GDescriptors)
    /\ GDescriptors[1].key = "directHeartRate"
    /\ Len(GRecords) = MaxRecords
    /\ \A n \in StreamNames : Len(gc.streams[n]) = MaxRecords
    /\ gc.streams["heartrate_stream"] # gc.streams["altitude_stream"]

\* C14: in a response that was built, every stream has one entry per raw
\* record, the entry of record i being the record's metric at the stream's
\* metricsIndex (its key has an entry), null when that metric is null; so
\* the ten streams have the length of the record list, whatever the
\* declared sizes are.
C14_StreamsFollowRecords ==
    GBuilt =>
      \A n \in StreamNames :
        LET p == PositionOf(n) IN
        /\ Len(gc.streams[n]) = Len(GRecords)
        /\ \A i \in 1..Len(GRecords) :
             /\ EntriesOf(n) # {}
             /\ gc.streams[n][i] = At(GRecords[i].metrics, p)

C14_Witness ==
    /\ GBuilt
    /\ Len(GRecords) = MaxRecords
    /\ gc.streams_size < gc.original_dataset_size
    /\ gc.streams["lat_stream"][1] = None
    /\ gc.streams["lng_stream"][1] = None
    /\ ~gc.streams["heartrate_stream"][1].null
    /\ ~gc.streams["lat_stream"][MaxRecords].null

\* C15: every stream of a response that was built has the declared
\* streams_size, and a payload whose streams would have another length is
\* rejected with StreamSizeError.
C15_SizesAreValidated ==
    /\ GBuilt => \A n \in StreamNames : Len(gc.streams[n]) = gc.streams_size
    /\ (GInitDone /\ Len(GRecords) # gc_payload.metricsCount)
         => gc.state = "raised" /\ gc.exc = "StreamSizeError"

\* C16: when the descriptors have no entry for one of the ten streams, the
\* construction fails with an error that names such a stream, and no
\* response is built.
C16_MissingMetricFails ==
    (GInitDone /\ \E n \in StreamNames : EntriesOf(n) = {})
      => /\ gc.state = "raised"
         /\ gc.args[1] \in {n \in StreamNames : EntriesOf(n) = {}}

\* C17: the map of the descriptors is built whatever the descriptors are:
\* it holds exactly the streams whose vendor key has an entry, each with the
\* metricsIndex of the last entry of its key; entries of other keys add
\* nothing.
C17_DescriptorMap ==
    GInitDone =>
      /\ DOMAIN gc.map = {n \in StreamNames : EntriesOf(n) # {}}
      /\ \A n \in DOMAIN gc.map : gc.map[n] = PositionOf(n)

C17_Witness ==
    /\ GInitDone
    /\ Len(GDescriptors) = Len(KnownKeys) + 1
    /\ GDescriptors[Len(GDescriptors)].key = "directSpeed"
    /\ Cardinality(EntriesOf("speed_stream")) = 2
    /\ gc.map["speed_stream"] = GDescriptors[Len(GDescriptors)].metricsIndex
    /\ gc.map["speed_stream"] # GDescriptors[CHOOSE k \in EntriesOf("speed_stream") : k < Len(GDescriptors)].metricsIndex

\* C18: an accessor called with do_remove_none_values returns the non-null
\* entries of its stream in their order, an accessor called without it
\* returns the stream, and no call changes a stream: a call without the
\* flag after a call with it returns the stream with its nulls.
C18_RemoveNoneKeepsStream ==
    [][GarminAccess =>
         /\ gc'.streams = gc.streams
         /\ gc_call'.do_remove_none_values
              => gc_out' = Return(NonNulls(gc.streams[gc_call'.name]))
         /\ ~gc_call'.do_remove_none_values
              => /\ gc_out' = Return(gc.streams[gc_call'.name])
                 /\ Len(gc_out'.value) = Len(GRecords)]_vars

C18_Witness ==
    /\ gc_calls = 2
    /\ gc_call.name \in NoneRemovers
    /\ ~gc_call.do_remove_none_values
    /\ gc_out.kind = "return"
    /\ Len(gc_out.value) = MaxRecords
    /\ gc_out.value[1] = None
    /\ ~gc_out.value[MaxRecords].null


(***************************************************************************)
(* StravaApiRateLimitExceeded                                              *)
(* (src/libs/strava-client/strava_client/strava_client.py).                *)
(***************************************************************************)
MinutesPerHour == 60
HoursPerDay == 24
Quarter == 15    \* the rate limit is reset every 15 minutes of the hour

\* Minutes from the start of day 0 to the start of the minute of t.
MinuteCount(t) == (t.day * HoursPerDay + t.hour) * MinutesPerHour + t.minute

\* t + timedelta(minutes=i): the minutes carry into the hour and the day,
\* the seconds and microseconds stay.
AddMinutes(t, i) ==
    LET n == MinuteCount(t) + i IN
    [t EXCEPT !.day = n \div (HoursPerDay * MinutesPerHour),
              !.hour = (n \div MinutesPerHour) % HoursPerDay,
              !.minute = n % MinutesPerHour]

\* reset_ts.replace(second=0, microsecond=0)
ReplaceSecondMicrosecond(t) == [t EXCEPT !.second = 0, !.microsecond = 0]

\* A loop that starts at the minute of ts itself.
ResetRange_from0 == Range(0, Quarter + 1)

\* range(1, 16)
ResetRange == Range(1, Quarter + 1)

\* The loop of __init__ from position k of the range: reset_ts is assigned
\* in every pass, and truncated in the pass that breaks out of the loop.
RECURSIVE ResetLoop(_, _, _)
ResetLoop(ts, reset_ts, k) ==
    IF k > Len(ResetRange) THEN reset_ts
    ELSE LET r == AddMinutes(ts, ResetRange[k]) IN
         IF r.minute % Quarter = 0 THEN ReplaceSecondMicrosecond(r)
         ELSE ResetLoop(ts, r, k + 1)

\* StravaApiRateLimitExceeded.__init__ at the time now.
StravaApiRateLimitExceeded(now) ==
    [raised |-> TRUE, ts |-> now, reset_ts |-> ResetLoop(now, now, 1)]

\* The request that gets the rate limit answer raises the exception; the
\* first exception raised is the one followed.
RaiseRateLimitExceeded(now) ==
    /\ ~rl_exc.raised
    /\ rl_exc' = StravaApiRateLimitExceeded(now)
    /\ UNCHANGED <<data, validated, validate_log, lru_newer, mtVars, seVars, srVars,
                   gcVars, toolVars>>

\* Times of day at which the limit is hit: every minute of the first, a
\* middle and the last hour of a day, at the start, in the middle and at
\* the end of a second and of a minute.
Hours == {0, 11, HoursPerDay - 1}
Seconds == {0, 30, MinutesPerHour - 1}
Microseconds == {0, 1, 999999}
Clock ==
    {DateTime(0, h, m, sec, us) :
       h \in Hours, m \in 0..(MinutesPerHour - 1), sec \in Seconds, us \in Microseconds}

InitRL ==
    /\ data = <<>>
    /\ NewCache
    /\ IdleRL
    /\ IdleTools
    /\ IdleMT
    /\ IdleSE
    /\ IdleSR
    /\ IdleGC

NextRL == \E now \in Clock : RaiseRateLimitExceeded(now)

SpecRL == InitRL /\ [][NextRL]_vars

(***************************************************************************)
(* Properties of StravaApiRateLimitExceeded.                               *)
(***************************************************************************)
\* a is an earlier instant than b.
Earlier(a, b) ==
    \/ MinuteCount(a) < MinuteCount(b)
    \/ /\ MinuteCount(a) = MinuteCount(b)
       /\ \/ a.second < b.second
          \/ a.second = b.second /\ a.microsecond < b.microsecond

OnQuarter(t) ==
    t.minute \in {0, 15, 30, 45} /\ t.second = 0 /\ t.microsecond = 0

\* C20: the reset_ts of a raised StravaApiRateLimitExceeded is later than
\* its ts, not more than 15 minutes later, at minute 0, 15, 30 or 45 with
\* zero seconds and microseconds, and no minute between ts and reset_ts
\* starts a quarter of an hour.
C20_ResetIsNextQuarter ==
    rl_exc.raised =>
      LET ts == rl_exc.ts
          reset_ts == rl_exc.reset_ts
      IN  /\ Earlier(ts, reset_ts)
          /\ ~Earlier(AddMinutes(ts, 15), reset_ts)
          /\ OnQuarter(reset_ts)
          /\ \A n \in (MinuteCount(ts) + 1)..(MinuteCount(reset_ts) - 1) :
               n % 15 # 0

C20_Witness ==
    /\ rl_exc.raised
    /\ rl_exc.ts = DateTime(0, 23, 59, 59, 999999)
    /\ rl_exc.reset_ts = DateTime(1, 0, 0, 0, 0)


(***************************************************************************)
(* Further properties of get_moving_time_stream.                           *)
(***************************************************************************)
\* The delta of the elapsed-time stream at index i.
DeltaAt(e, i) == At(e, i) - At(e, i - 1)

\* The sum of the deltas at the indices 2..k whose moving flag is False and
\* whose delta is at least 13.
RECURSIVE PausedUpTo(_, _, _)
PausedUpTo(e, mv, k) ==
    IF k < 2 THEN 0
    ELSE PausedUpTo(e, mv, k - 1)
         + (IF At(mv, k) = FALSE /\ DeltaAt(e, k) >= 13 THEN DeltaAt(e, k) ELSE 0)

C27_SizeErrorBeforeLookup ==
    SRCalled =>
      /\ SRRaised("StreamSizeError") <=> WrongSizes # {}
      /\ SRRaised("StreamSizeError") => sr_out.args[3] = DeclaredSize
      /\ SRRaised("StreamNotFound") => WrongSizes = {}

C27_Witness ==
    /\ SRCalled
    /\ ~Present(sr_name)
    /\ Len(data) = 2
    /\ WrongSizes = {2}
    /\ SRRaised("StreamSizeError")
    /\ sr_out.args[1] = data[2].type


(***************************************************************************)
(* Further properties of get_segment_efforts.                              *)
(***************************************************************************)
FailingKeys == {k \in 1..Len(Keys) : ~KeyResolves(Keys[k])}
FirstFailing == CHOOSE k \in FailingKeys : \A j \in FailingKeys : k <= j

\* The error of the first failing key, and nothing returned.
FirstFailureReported ==
    (Filtered /\ FailingKeys # {}) =>
      LET key == Keys[FirstFailing] IN
      /\ se_out.kind = "raise"
      /\ se_out.value = <<>>
      /\ se_out.exc = (IF IdKnown(key) THEN "SegmentNameMismatch"
                       ELSE "SegmentEffortNotFound")
      /\ se_out.args[1] = key[1]
      /\ se_out.args[2] = key[2]

\* C28: a call of get_segment_efforts leaves the raw effort list of the
\* activity as it is, and when some key fails it raises the error of the
\* first failing key in the supplied order and returns no record, also when
\* keys before it matched.
C28_FirstFailingKeyDecides ==
    [][GetSegmentEfforts => (activity' = activity /\ FirstFailureReported')]_vars

C28_Witness ==
    /\ Filtered
    /\ Len(Keys) = 2
    /\ IdKnown(Keys[1])
    /\ Differing(Keys[1]) # <<>>
    /\ ~IdKnown(Keys[2])
    /\ SERaised("SegmentNameMismatch")
    /\ se_out.args[1] = Keys[1][1]
    /\ se_out.value = <<>>


(***************************************************************************)
(* ExporterToDb and the tables of strava_db_models                         *)
(* (src/projects/strava-exporter-to-db/strava_exporter_to_db/exporter.py). *)
(***************************************************************************)
MaxRuns == 3       \* runs of the exporter that are followed

\* A table is the list of its rows in the order of their insertion; the
\* AutoField id of a row is its place in that order.
\* Model.get_or_none(strava_id=...): the place of the row, 0 for None.
get_or_none(table, strava_id) ==
    IF \E k \in 1..Len(table) : table[k].strava_id = strava_id
    THEN CHOOSE k \in 1..Len(table) :
           /\ table[k].strava_id = strava_id
           /\ \A j \in 1..(k - 1) : table[j].strava_id # strava_id
    ELSE 0

\* An insert that replaces the row in conflict by a new row.
InsertOnConflictUpdate_replace(table, create_row, update_row) ==
    LET k == get_or_none(table, create_row.strava_id) IN
    IF k = 0 THEN Append(table, [create_row EXCEPT !.id = Len(table) + 1])
    ELSE Append(SubSeq(table, 1, k - 1) \o SubSeq(table, k + 1, Len(table)),
                [create_row EXCEPT !.id = Len(table) + 1])

\* Model.insert(**create_data).on_conflict(conflict_target=[strava_id],
\* update=update_data).execute(): a new row when no row has the strava_id,
\* else the row in conflict with the columns of update_data set.
InsertOnConflictUpdate(table, create_row, update_row) ==
    LET k == get_or_none(table, create_row.strava_id) IN
    IF k = 0 THEN Append(table, [create_row EXCEPT !.id = Len(table) + 1])
    ELSE [table EXCEPT ![k] = update_row]

\* checksum_utils.md5_checksum_for_data: a digest of the content of the
\* dict; different contents have different digests.
md5_checksum_for_data(d) ==
    <<d.id, d.name, d.has_heartrate, d.average_heartrate, d.max_heartrate,
      d.gear_id, d.has_description, d.description, d.has_gear, d.gear.id,
      d.gear.name>>

\* A comparison of checksums that finds every payload changed.
ChecksumDiffers_always(stored, computed) == TRUE

\* found.md5_checksum != md5_checksum
ChecksumDiffers(stored, computed) == stored # computed

\* _db_create_or_update_raw_activity_summary and
\* _db_create_or_update_raw_activity_details on their table.
_db_create_or_update_raw(table, d) ==
    LET k == get_or_none(table, d.id)
        create_data == [id |-> 0, strava_id |-> d.id, raw |-> d,
                        md5_checksum |-> md5_checksum_for_data(d)]
    IN  InsertOnConflictUpdate(table, create_data,
          IF k = 0 THEN create_data
          ELSE [table[k] EXCEPT !.raw = create_data.raw,
                                !.md5_checksum = create_data.md5_checksum])

\* The heart rate attributes are neither all truthy nor all falsy.
HeartRateInconsistent(d) ==
    LET _all_hr_values ==
          <<d.has_heartrate, d.average_heartrate # 0, d.max_heartrate # 0>>
    IN  /\ ~(\A k \in 1..3 : _all_hr_values[k])
        /\ ~(\A k \in 1..3 : ~_all_hr_values[k])

Null == "null"

\* _db_create_or_update_activity: the table after the call and how the call
\* ended.  Columns that create_data does not hold are null in a new row and
\* stay as they are in an updated row.
_db_create_or_update_activity(table, d) ==
    LET k == get_or_none(table, d.id)
        old == IF k = 0
               THEN [id |-> 0, strava_id |-> d.id, name |-> "", gear_id |-> "",
                     heartrate_avg |-> 0, heartrate_max |-> 0,
                     description |-> Null, gear_name |-> Null]
               ELSE table[k]
        with_summary == [old EXCEPT !.name = d.name, !.gear_id = d.gear_id]
        with_hr == IF d.average_heartrate # 0
                   THEN [with_summary EXCEPT !.heartrate_avg = d.average_heartrate,
                                             !.heartrate_max = d.max_heartrate]
                   ELSE with_summary
        with_description == IF d.has_description
                            THEN [with_hr EXCEPT !.description = d.description]
                            ELSE with_hr
        with_gear == IF d.has_gear
                     THEN [with_description EXCEPT !.gear_name = d.gear.name]
                     ELSE with_description
    IN  IF HeartRateInconsistent(d)
        THEN [table |-> table,
              out |-> Raise("HeartRateError",
                            <<d.id, d.has_heartrate, d.average_heartrate,
                              d.max_heartrate>>)]
        ELSE IF d.has_gear /\ d.gear_id # d.gear.id
        THEN [table |-> table,
              out |-> Raise("GearIdMismatch", <<d.id, d.gear_id, d.gear.id>>)]
        ELSE [table |-> InsertOnConflictUpdate(table, with_gear, with_gear),
              out |-> Return(<<>>)]


\* What a run carries from one activity to the next: the tables, the rows
\* written so far and the error that ended the run, if any.
RunState(tables, writes, out) == [db |-> tables, writes |-> writes, out |-> out]

\* The body of the loop of export_summaries for one summary dict.
SummaryBody(st, d) ==
    LET found == get_or_none(st.db.raw_activity_summary, d.id)
        write == IF found = 0 THEN TRUE
                 ELSE ChecksumDiffers(st.db.raw_activity_summary[found].md5_checksum,
                                      md5_checksum_for_data(d))
        raw == _db_create_or_update_raw(st.db.raw_activity_summary, d)
        act == _db_create_or_update_activity(st.db.activity, d)
    IN  IF ~write THEN st
        ELSE RunState([st.db EXCEPT !.raw_activity_summary = raw,
                                    !.activity = act.table],
                      st.writes \o <<<<"raw_activity_summary", d.id>>>>
                        \o (IF act.out.kind = "raise" THEN <<>>
                            ELSE <<<<"activity", d.id>>>>),
                      act.out)

RECURSIVE SummaryLoop(_, _, _)
SummaryLoop(st, summaries, k) ==
    IF k > Len(summaries) \/ st.out.kind = "raise" THEN st
    ELSE SummaryLoop(SummaryBody(st, summaries[k]), summaries, k + 1)

\* export_summaries on the summaries that the pages of the API hold, in the
\* order of the pages.
export_summaries(tables, strategy, summaries) ==
    IF strategy = "ONLY_MISSING"
    THEN RunState(tables, <<>>, Raise("NotImplementedError", <<>>))
    ELSE SummaryLoop(RunState(tables, <<>>, Return(<<>>)), summaries, 1)

\* client.get_activity_details: the details dict of the activity among
\* those the API holds, ActivityNotFound when it holds none.
DetailsOf(details, strava_id) ==
    IF \E k \in 1..Len(details) : details[k].id = strava_id
    THEN Return(details[CHOOSE k \in 1..Len(details) : details[k].id = strava_id])
    ELSE Raise("ActivityNotFound", <<strava_id>>)

\* The body of the loop of export_details for one Activity row.
DetailsBody(st, details, strava_id) ==
    LET api == DetailsOf(details, strava_id)
        d == api.value
        found == get_or_none(st.db.raw_activity_details, strava_id)
        write == IF found = 0 THEN TRUE
                 ELSE ChecksumDiffers(st.db.raw_activity_details[found].md5_checksum,
                                      md5_checksum_for_data(d))
        raw == _db_create_or_update_raw(st.db.raw_activity_details, d)
        act == _db_create_or_update_activity(st.db.activity, d)
    IN  IF api.kind = "raise" THEN RunState(st.db, st.writes, api)
        ELSE IF ~write THEN st
        ELSE RunState([st.db EXCEPT !.raw_activity_details = raw,
                                    !.activity = act.table],
                      st.writes \o <<<<"raw_activity_details", strava_id>>>>
                        \o (IF act.out.kind = "raise" THEN <<>>
                            ELSE <<<<"activity", strava_id>>>>),
                      act.out)

RECURSIVE DetailsLoop(_, _, _, _)
DetailsLoop(st, details, query, k) ==
    IF k > Len(query) \/ st.out.kind = "raise" THEN st
    ELSE DetailsLoop(DetailsBody(st, details, query[k].strava_id), details,
                     query, k + 1)

\* export_details of an exporter made without before_ts and after_ts: the
\* query selects every Activity row, with ONLY_MISSING those without a
\* RawActivityDetails row.
export_details(tables, strategy, details) ==
    LET query ==
          IF strategy = "ONLY_MISSING"
          THEN SelectSeq(tables.activity,
                         LAMBDA a : get_or_none(tables.raw_activity_details,
                                                a.strava_id) = 0)
          ELSE tables.activity
    IN  DetailsLoop(RunState(tables, <<>>, Return(<<>>)), details, query, 1)

StrategyEnum == {"OVERWRITE_IF_CHANGED", "ONLY_MISSING"}

(***************************************************************************)
(* What the API holds when the exporter runs.                              *)
(***************************************************************************)
ActivityIds == <<102, 101>>     \* in the order of the listing

NoGear == [id |-> "", name |-> ""]

\* The heart rate attributes of a payload: has_heartrate, average_heartrate
\* and max_heartrate, 0 standing for an absent or null value.
HeartRates == {<<TRUE, 120, 150>>, <<FALSE, 0, 0>>, <<TRUE, 0, 150>>}

SummaryDict(id, name, hr) ==
    [id |-> id, name |-> name, has_heartrate |-> hr[1],
     average_heartrate |-> hr[2], max_heartrate |-> hr[3], gear_id |-> "g1",
     has_description |-> FALSE, description |-> "", has_gear |-> FALSE,
     gear |-> NoGear]

DetailsDict(id, description, gear_id) ==
    [id |-> id, name |-> "Run", has_heartrate |-> TRUE,
     average_heartrate |-> 120, max_heartrate |-> 150, gear_id |-> "g1",
     has_description |-> TRUE, description |-> description,
     has_gear |-> gear_id # "",
     gear |-> IF gear_id = "" THEN NoGear ELSE [id |-> gear_id, name |-> "Shoes"]]

SummariesOf(id) ==
    {SummaryDict(id, "Run", hr) : hr \in HeartRates}
    \cup {SummaryDict(id, "Long run", <<TRUE, 120, 150>>)}

DetailsFor(id) ==
    {DetailsDict(id, "easy", "g1"), DetailsDict(id, "hard", "g1"),
     DetailsDict(id, "easy", "g2"), DetailsDict(id, "easy", "")}

\* Every choice of some of the activities, in the order of the listing, with
\* one of the dicts of each.
RECURSIVE Choices(_, _)
Choices(n, dicts) ==
    IF n = 0 THEN {<<>>}
    ELSE LET rest == Choices(n - 1, dicts) IN
         rest \cup {<<d>> \o q : d \in dicts[ActivityIds[Len(ActivityIds) - n + 1]],
                                 q \in rest}

IdSet == {ActivityIds[k] : k \in 1..Len(ActivityIds)}
SummaryLists == Choices(Len(ActivityIds), [id \in IdSet |-> SummariesOf(id)])
DetailsLists == Choices(Len(ActivityIds), [id \in IdSet |-> DetailsFor(id)])

Run(command, strategy, summaries, details, st) ==
    [command |-> command, strategy |-> strategy, summaries |-> summaries,
     details |-> details, out |-> st.out, writes |-> st.writes]

ExportSummaries ==
    /\ ex_runs < MaxRuns
    /\ ex_runs' = ex_runs + 1
    /\ \E strategy \in StrategyEnum :
       \E summaries \in IF strategy = "ONLY_MISSING" THEN {<<>>} ELSE SummaryLists :
         LET st == export_summaries(db, strategy, summaries) IN
         /\ db' = st.db
         /\ ex_run' = Run("summaries", strategy, summaries, <<>>, st)
    /\ UNCHANGED <<data, validated, validate_log, lru_newer, mtVars, seVars, srVars,
                   gcVars, rlVars, clVars, pgVars>>

ExportDetails ==
    /\ ex_runs < MaxRuns
    /\ ex_runs' = ex_runs + 1
    /\ \E strategy \in StrategyEnum : \E details \in DetailsLists :
         LET st == export_details(db, strategy, details) IN
         /\ db' = st.db
         /\ ex_run' = Run("details", strategy, <<>>, details, st)
    /\ UNCHANGED <<data, validated, validate_log, lru_newer, mtVars, seVars, srVars,
                   gcVars, rlVars, clVars, pgVars>>

InitEX ==
    /\ data = <<>>
    /\ NewCache
    /\ IdleRL
    /\ IdleTools
    /\ IdleMT
    /\ IdleSE
    /\ IdleSR
    /\ IdleGC

NextEX == ExportSummaries \/ ExportDetails

SpecEX == InitEX /\ [][NextEX]_vars


(***************************************************************************)
(* Properties of ExporterToDb.                                             *)
(***************************************************************************)
TableNames == {"raw_activity_summary", "raw_activity_details", "activity"}

\* A step that is a run of the exporter.
ExportRun == ex_runs' = ex_runs + 1

\* At most one row for a strava_id, and the ids of the rows are their own.
OneRowPerActivity(table) ==
    \A h, k \in 1..Len(table) :
      (table[h].strava_id = table[k].strava_id \/ table[h].id = table[k].id)
        => h = k

\* Every row of the table before is a row of the table after, with the id
\* and the strava_id it had.
RowsKept(before, after) ==
    \A k \in 1..Len(before) :
      \E h \in 1..Len(after) :
        after[h].id = before[k].id /\ after[h].strava_id = before[k].strava_id

HasRow(table, strava_id) == \E k \in 1..Len(table) : table[k].strava_id = strava_id
RowOf(table, strava_id) ==
    table[CHOOSE k \in 1..Len(table) : table[k].strava_id = strava_id]

\* The raw row of the payload holds the payload and its checksum.
Mirrors(table, d) ==
    /\ HasRow(table, d.id)
    /\ RowOf(table, d.id).raw = d
    /\ RowOf(table, d.id).md5_checksum = md5_checksum_for_data(d)

\* The stored checksum of the payload is not the checksum of the payload.
Changed(table, d) ==
    HasRow(table, d.id) /\ RowOf(table, d.id).md5_checksum # md5_checksum_for_data(d)

ReadFor(run, strava_id) ==
    LET q == IF run.command = "summaries" THEN run.summaries ELSE run.details
    IN  {q[k] : k \in {h \in 1..Len(q) : q[h].id = strava_id}}

RawTableOf(run) ==
    IF run.command = "summaries" THEN "raw_activity_summary"
    ELSE "raw_activity_details"

WritesFor(run, strava_id) ==
    {k \in 1..Len(run.writes) : run.writes[k][2] = strava_id}

\* C22: a run writes no row for an activity whose payload has the checksum
\* of its stored raw row, and leaves the rows of that activity in the three
\* tables as they were; a run that follows a run of the same command and
\* strategy that returned, on the same payloads, writes nothing and leaves
\* every table as it was.
C22_UnchangedIsNotWritten ==
    [][ExportRun =>
         /\ \A id \in IdSet : \A d \in ReadFor(ex_run', id) :
              (/\ HasRow(db[RawTableOf(ex_run')], id)
               /\ ~Changed(db[RawTableOf(ex_run')], d))
                => /\ WritesFor(ex_run', id) = {}
                   /\ \A t \in TableNames :
                        HasRow(db[t], id) => RowOf(db'[t], id) = RowOf(db[t], id)
         /\ (/\ ex_run.out.kind = "return"
             /\ ex_run'.command = ex_run.command
             /\ ex_run'.strategy = ex_run.strategy
             /\ ex_run'.summaries = ex_run.summaries
             /\ ex_run'.details = ex_run.details)
              => /\ db' = db
                 /\ ex_run'.writes = <<>>
       ]_vars

C22_Witness ==
    /\ ex_runs = 2
    /\ ex_run.command = "summaries"
    /\ ex_run.out.kind = "return"
    /\ Len(ex_run.summaries) = 2
    /\ ex_run.writes = <<>>
    /\ \A k \in 1..2 : Mirrors(db.raw_activity_summary, ex_run.summaries[k])
    /\ Len(db.activity) = 2

MaxClientCalls == 1    \* calls of the clients that are followed
MaxListed == 2         \* most activities of a listed page

DuplicateWindow == 4500    \* timedelta(hours=1, minutes=15), in seconds
DayOne == 86400            \* 1970-01-02T00:00:00+00:00, in seconds

\* Python values handed to the clients where a date is expected.
PyNone == [t |-> "none", aware |-> FALSE, ts |-> 0, text |-> ""]
PyNumber(n) == [t |-> "number", aware |-> FALSE, ts |-> n, text |-> ""]
PyDatetime(ts, aware) == [t |-> "datetime", aware |-> aware, ts |-> ts, text |-> ""]
PyStr(s) == [t |-> "str", aware |-> FALSE, ts |-> 0, text |-> s]

is_naive(d) == ~d.aware
utc_date_to_timestamp(d) == d.ts

\* The strings that are ISO 8601 dates, each with the datetime it stands
\* for; every other string is not a date.
IsoDates ==
    "1970-01-02T00:00:00+00:00" :> PyDatetime(DayOne, TRUE)
    @@ "1970-01-01T01:15:00+00:00" :> PyDatetime(DuplicateWindow, TRUE)
    @@ "1970-01-02T00:00:00" :> PyDatetime(DayOne, FALSE)

iso_string_to_date(s) ==
    IF s \in DOMAIN IsoDates THEN Return(IsoDates[s]) ELSE Raise("ValueError", <<s>>)

\* What a method did: its outcome and the requests it issued.
Result(out, http) == [out |-> out, http |-> http]

Request(method, url, params) == [method |-> method, url |-> url, params |-> params]

\* An HTTP response: status line, and the "errors" and the data of its
\* JSON body.
HttpResponse(status, reason, errors, d) ==
    [status |-> status, reason |-> reason, errors |-> errors, data |-> d]
Ok(d) == HttpResponse(200, "OK", <<>>, d)
ApiError(field, code) == [field |-> field, code |-> code]
TooManyRequests ==
    HttpResponse(429, "Too Many Requests", <<ApiError("rate limit", "exceeded")>>, <<>>)
ServerError == HttpResponse(500, "Internal Server Error", <<>>, <<>>)
AfterInTheFuture == HttpResponse(400, "Bad Request", <<ApiError("after", "future")>>, <<>>)
SportTypeRejected ==
    HttpResponse(400, "Bad Request", <<ApiError("sport_type", "invalid")>>, <<>>)
Conflict == HttpResponse(409, "Conflict", <<>>, <<>>)
NotFound == HttpResponse(404, "Not Found", <<>>, <<>>)

\* response.raise_for_status() raises HTTPError.
raise_for_status(response) == response.status >= 400

HasError(response, field, code) ==
    \E k \in 1..Len(response.errors) :
        response.errors[k].field = field /\ response.errors[k].code = code

\* The decorator of the methods of StravaClient.
handle_api_rate_limit_error(res) ==
    IF res.out.kind = "raise" /\ res.out.exc = "HTTPError" /\ res.out.args[1] = 429
    THEN Result(Raise("StravaApiRateLimitExceeded", <<>>), res.http)
    ELSE res

\* The timestamp of a date argument that is not a naive datetime; None
\* counts as 0, which is as false as None where the payload is built.
Timestamp(v) == IF v.t = "datetime" THEN utc_date_to_timestamp(v) ELSE v.ts

\* The payload of list_activities: a parameter that is left out is 0.
ListActivitiesRequest(after_ts, before_ts, n_results_per_page, page_n) ==
    Request("GET", "athlete/activities",
            [before |-> before_ts, after |-> after_ts,
             per_page |-> n_results_per_page,
             page |-> IF page_n # 1 THEN page_n ELSE 0])

list_activities_fn(after_ts, before_ts, n_results_per_page, page_n, response) ==
    IF after_ts.t = "datetime" /\ is_naive(after_ts)
    THEN Result(Raise("NaiveDatetime", <<after_ts>>), <<>>)
    ELSE IF before_ts.t = "datetime" /\ is_naive(before_ts)
    THEN Result(Raise("NaiveDatetime", <<before_ts>>), <<>>)
    ELSE
    LET http == <<ListActivitiesRequest(Timestamp(after_ts), Timestamp(before_ts),
                                        n_results_per_page, page_n)>>
    IN  IF raise_for_status(response)
        THEN IF HasError(response, "after", "future")
             THEN Result(Raise("AfterTsInTheFuture", <<Timestamp(after_ts)>>), http)
             ELSE Result(Raise("HTTPError", <<response.status>>), http)
        ELSE IF page_n # 1 /\ response.data = <<>>
        THEN Result(Raise("RequestedResultsPageDoesNotExist", <<page_n>>), http)
        ELSE Result(Return(response.data), http)

list_activities(after_ts, before_ts, n_results_per_page, page_n, response) ==
    handle_api_rate_limit_error(
        list_activities_fn(after_ts, before_ts, n_results_per_page, page_n, response))

\* A filter that looks at sport_type alone.
filter_by_activity_type_sportTypeOnly(d, activity_type) ==
    SelectSeq(d, LAMBDA a : a.sport_type = activity_type)

\* ListActivitiesResponse.filter_by_activity_type, as a list.
filter_by_activity_type(d, activity_type) ==
    SelectSeq(d, LAMBDA a : a.type = activity_type \/ a.sport_type = activity_type)

CreateActivityRequest(sport_type, start_date) ==
    Request("POST", "activities",
            [sport_type |-> sport_type, start_date_local |-> start_date.ts])

\* The part of create_activity from the POST on.
PostActivity(sport_type, start_date, sent, post_response) ==
    LET http == Append(sent, CreateActivityRequest(sport_type, start_date)) IN
    IF raise_for_status(post_response)
    THEN IF post_response.status = 409 /\ post_response.reason = "Conflict"
         THEN Result(Raise("PossibleDuplicatedActivity", <<>>), http)
         ELSE IF HasError(post_response, "sport_type", "invalid")
         THEN Result(Raise("SportTypeInvalid", <<sport_type>>), http)
         ELSE Result(Raise("HTTPError", <<post_response.status>>), http)
    ELSE Result(Return(post_response.data), http)

\* The part of create_activity that looks for a duplicate.
DetectDuplicates(sport_type, start_date, list_response, post_response) ==
    LET after_ts == start_date.ts - DuplicateWindow
        before_ts == start_date.ts + DuplicateWindow
        response == list_activities(PyNumber(after_ts), PyNumber(before_ts), 0, 1,
                                    list_response)
    IN  IF response.out.kind = "raise" THEN response
        ELSE LET activities == filter_by_activity_type(response.out.value, sport_type)
             IN  IF activities # <<>>
                 THEN Result(Raise("PossibleDuplicatedActivity", <<activities[1].id>>),
                             response.http)
                 ELSE PostActivity(sport_type, start_date, response.http, post_response)

create_activity_fn(sport_type, start_date, do_detect_duplicates, list_response, post_response) ==
    LET parsed == IF start_date.t = "str" THEN iso_string_to_date(start_date.text)
                  ELSE Return(start_date)
    IN  IF parsed.kind = "raise"
        THEN Result(Raise("InvalidDatetime", <<start_date>>), <<>>)
        ELSE IF parsed.value.t # "datetime"
        THEN Result(Raise("InvalidDatetime", <<start_date>>), <<>>)
        ELSE IF is_naive(parsed.value)
        THEN Result(Raise("NaiveDatetime", <<parsed.value>>), <<>>)
        ELSE IF do_detect_duplicates
        THEN DetectDuplicates(sport_type, parsed.value, list_response, post_response)
        ELSE PostActivity(sport_type, parsed.value, <<>>, post_response)

create_activity(sport_type, start_date, do_detect_duplicates, list_response, post_response) ==
    handle_api_rate_limit_error(
        create_activity_fn(sport_type, start_date, do_detect_duplicates,
                           list_response, post_response))

SupportedStreamTypes == {"time", "distance", "latlng", "altitude", "heartrate", "moving"}

\* The loop over stream_types from position k: the first type that is not
\* supported, or "" when all are.
RECURSIVE FirstInvalidStreamType(_, _)
FirstInvalidStreamType(stream_types, k) ==
    IF k > Len(stream_types) THEN ""
    ELSE IF stream_types[k] \notin SupportedStreamTypes THEN stream_types[k]
    ELSE FirstInvalidStreamType(stream_types, k + 1)

GetStreamsRequest(activity_id, stream_types) ==
    Request("GET", "activities/streams", [id |-> activity_id, keys |-> stream_types])

\* The end of get_streams and of get_activity_details, once the request has
\* been sent.
AnswerOr404(activity_id, response, http) ==
    IF raise_for_status(response)
    THEN IF response.status = 404
         THEN Result(Raise("ActivityNotFound", <<activity_id>>), http)
         ELSE Result(Raise("HTTPError", <<response.status>>), http)
    ELSE Result(Return(response.data), http)

\* A get_streams that sends the request and looks at the stream types after.
get_streams_fn_requestFirst(activity_id, stream_types, response) ==
    LET invalid == FirstInvalidStreamType(stream_types, 1)
        http == <<GetStreamsRequest(activity_id, stream_types)>>
    IN  IF invalid # "" THEN Result(Raise("InvalidStreamType", <<invalid>>), http)
        ELSE AnswerOr404(activity_id, response, http)

get_streams_fn(activity_id, stream_types, response) ==
    LET invalid == FirstInvalidStreamType(stream_types, 1) IN
    IF invalid # "" THEN Result(Raise("InvalidStreamType", <<invalid>>), <<>>)
    ELSE AnswerOr404(activity_id, response,
                       <<GetStreamsRequest(activity_id, stream_types)>>)

get_streams(activity_id, stream_types, response) ==
    handle_api_rate_limit_error(get_streams_fn(activity_id, stream_types, response))

\* The rest of get_activity_details once the request has been sent.
get_activity_details_fn(activity_id, response) ==
    AnswerOr404(activity_id, response,
                  <<Request("GET", "activities", [id |-> activity_id])>>)

get_activity_details(activity_id, response) ==
    handle_api_rate_limit_error(get_activity_details_fn(activity_id, response))

update_activity_fn(activity_id, response) ==
    AnswerOr404(activity_id, response,
                <<Request("PUT", "activities", [id |-> activity_id])>>)

update_activity(activity_id, response) ==
    handle_api_rate_limit_error(update_activity_fn(activity_id, response))

(***************************************************************************)
(* Requests of GarminConnectClient                                         *)
(* (src/libs/garmin-connect-client/garmin_connect_client/                  *)
(* garmin_connect_client.py) and the constructor of ExporterToDb.          *)
(***************************************************************************)
\* datetime.fromisoformat(day)
fromisoformat(day) ==
    IF day \in DOMAIN IsoDates THEN Return(IsoDates[day]) ELSE Raise("ValueError", <<day>>)

\* The property garmin of a new client logs in before it hands out the
\* Garmin object.
garmin == <<Request("POST", "login", <<>>)>>

\* Whether a day argument is an ISO string or a date; None and any other
\* value are neither.
DayIsValid(day) ==
    \/ day.t = "datetime"
    \/ day.t = "str" /\ fromisoformat(day.text).kind = "return"

\* bool(day) of a day argument.
Truthy(day) ==
    CASE day.t = "none" -> FALSE
      [] day.t = "number" -> day.ts # 0
      [] day.t = "str" -> day.text # ""
      [] OTHER -> TRUE

garmin_list_activities(day, response) ==
    IF ~DayIsValid(day) THEN Result(Raise("InvalidDate", <<day>>), <<>>)
    ELSE Result(Return(response),
                garmin \o <<Request("GET", "get_activities_fordate", [date |-> day])>>)

\* The activity types of Garmin Connect, as sequences of characters.
GarminActivityTypes ==
    {<<"c", "y", "c", "l", "i", "n", "g">>,
     <<"r", "u", "n", "n", "i", "n", "g">>,
     <<"s", "w", "i", "m", "m", "i", "n", "g">>,
     <<"m", "u", "l", "t", "i", "_", "s", "p", "o", "r", "t">>,
     <<"f", "i", "t", "n", "e", "s", "s", "_", "e", "q", "u", "i", "p", "m", "e", "n", "t">>,
     <<"h", "i", "k", "i", "n", "g">>,
     <<"w", "a", "l", "k", "i", "n", "g">>,
     <<"o", "t", "h", "e", "r">>}

\* The parsing of day_start or day_end in search_activities: whether it
\* raises InvalidDate.
DayIsRejected(day) ==
    /\ day.t # "datetime"
    /\ IF day.t = "str" THEN fromisoformat(day.text).kind = "raise" ELSE Truthy(day)

search_activities(day_start, day_end, activity_type, response) ==
    IF DayIsRejected(day_start) THEN Result(Raise("InvalidDate", <<day_start>>), <<>>)
    ELSE IF DayIsRejected(day_end) THEN Result(Raise("InvalidDate", <<day_end>>), <<>>)
    ELSE IF activity_type # <<>> /\ lower(activity_type) \notin GarminActivityTypes
    THEN Result(Raise("ActivityTypeUnknown", <<activity_type>>), <<>>)
    ELSE Result(Return(response),
                garmin \o <<Request("GET", "connectapi",
                                    [startDate |-> day_start, endDate |-> day_end,
                                     activityType |-> activity_type])>>)

\* ExporterToDb.__init__: it builds the token manager and sends nothing.
ExporterToDb(strategy, before_ts, after_ts) ==
    IF strategy \notin StrategyEnum THEN Result(Raise("InvalidStrategy", <<>>), <<>>)
    ELSE IF Truthy(before_ts) /\ is_naive(before_ts)
    THEN Result(Raise("NaiveDatetime", <<before_ts>>), <<>>)
    ELSE IF Truthy(after_ts) /\ is_naive(after_ts)
    THEN Result(Raise("NaiveDatetime", <<after_ts>>), <<>>)
    ELSE Result(Return([strategy |-> strategy, before_ts |-> before_ts,
                        after_ts |-> after_ts]), <<>>)

(***************************************************************************)
(* Calls of the clients.                                                   *)
(***************************************************************************)
ListedActivity(id, type, sport_type) == [id |-> id, type |-> type, sport_type |-> sport_type]
ListedActivities ==
    {ListedActivity(11, "Run", "TrailRun"), ListedActivity(12, "Ride", "Ride"),
     ListedActivity(13, "Run", "Run")}

\* The pages the API can list: up to MaxListed activities, in any order.
Pages == UNION {[1..n -> ListedActivities] : n \in 0..MaxListed}

ListResponses == {Ok(p) : p \in Pages} \cup {TooManyRequests, AfterInTheFuture, ServerError}
PostResponses ==
    {Ok([id |-> 14]), Conflict, SportTypeRejected, TooManyRequests, ServerError}
GetResponses == {Ok(<<>>), NotFound, TooManyRequests, ServerError}

SportTypes == {"Run", "TrailRun"}
DateArgs == {PyNone, PyNumber(DayOne), PyDatetime(DayOne, TRUE), PyDatetime(DayOne, FALSE)}
ExporterDates == {PyNone, PyDatetime(DayOne, TRUE), PyDatetime(DayOne, FALSE)}
StartDates ==
    {PyDatetime(DayOne, TRUE), PyDatetime(DuplicateWindow, TRUE), PyDatetime(DayOne, FALSE),
     PyStr("1970-01-02T00:00:00+00:00"), PyStr("1970-01-02T00:00:00"),
     PyStr("yesterday"), PyNone}
Days ==
    {PyNone, PyNumber(DayOne), PyDatetime(DayOne, FALSE),
     PyStr("1970-01-02T00:00:00"), PyStr("yesterday"), PyStr("")}
StreamTypeLists ==
    {<<>>, <<"time">>, <<"time", "moving">>, <<"power">>, <<"time", "power">>,
     <<"power", "cadence">>}
SearchTypes ==
    {<<>>, <<"h", "i", "k", "i", "n", "g">>, <<"w", "A", "L", "k", "I", "n", "g">>,
     <<"y", "o", "g", "a">>}
Strategies == StrategyEnum \cup {"OVERWRITE", ""}

Call(method, args, res) ==
    /\ cl_calls < MaxClientCalls
    /\ cl_calls' = cl_calls + 1
    /\ cl_call' = [method |-> method, args |-> args]
    /\ cl_out' = res.out
    /\ cl_http' = res.http
    /\ UNCHANGED <<data, validated, validate_log, lru_newer, mtVars, seVars, srVars,
                   gcVars, rlVars, exVars, pgVars>>

ListActivities ==
    \E after_ts \in DateArgs, before_ts \in DateArgs, page_n \in 1..2,
       response \in ListResponses :
        Call("list_activities",
             [after_ts |-> after_ts, before_ts |-> before_ts, page_n |-> page_n,
              response |-> response],
             list_activities(after_ts, before_ts, 0, page_n, response))

CreateActivity ==
    \E sport_type \in SportTypes, start_date \in StartDates,
       do_detect_duplicates \in BOOLEAN, post_response \in PostResponses :
    \E list_response \in IF do_detect_duplicates THEN ListResponses ELSE {Ok(<<>>)} :
        Call("create_activity",
             [sport_type |-> sport_type, start_date |-> start_date,
              do_detect_duplicates |-> do_detect_duplicates,
              list_response |-> list_response, post_response |-> post_response],
             create_activity(sport_type, start_date, do_detect_duplicates,
                             list_response, post_response))

GetStreams ==
    \E stream_types \in StreamTypeLists, response \in GetResponses :
        Call("get_streams", [stream_types |-> stream_types, response |-> response],
             get_streams(UnknownId, stream_types, response))

GarminListActivities ==
    \E day \in Days :
        Call("garmin.list_activities", [day |-> day], garmin_list_activities(day, <<>>))

SearchActivities ==
    \E day_start \in Days, day_end \in Days, activity_type \in SearchTypes :
        Call("garmin.search_activities",
             [day_start |-> day_start, day_end |-> day_end,
              activity_type |-> activity_type],
             search_activities(day_start, day_end, activity_type, <<>>))

NewExporterToDb ==
    \E strategy \in Strategies, before_ts \in ExporterDates, after_ts \in ExporterDates :
        Call("ExporterToDb",
             [strategy |-> strategy, before_ts |-> before_ts, after_ts |-> after_ts],
             ExporterToDb(strategy, before_ts, after_ts))

InitCL ==
    /\ data = <<>>
    /\ NewCache
    /\ IdleRL
    /\ IdleTools
    /\ IdleMT
    /\ IdleSE
    /\ IdleSR
    /\ IdleGC

NextCL ==
    \/ ListActivities
    \/ CreateActivity
    \/ GetStreams
    \/ GarminListActivities
    \/ SearchActivities
    \/ NewExporterToDb

SpecCL == InitCL /\ [][NextCL]_vars


(***************************************************************************)
(* Properties of the requests of the clients.                              *)
(***************************************************************************)
\* The last call was of the method.
Called(method) == cl_call.method = method

\* A date argument that is a datetime without a time zone.
NaiveArg(d) == d.t = "datetime" /\ ~d.aware

\* A date argument that is a string and not an ISO date.
UnparseableArg(d) == d.t = "str" /\ d.text \notin DOMAIN IsoDates

\* The last call raised the error and issued no request.
RejectedWith(exc) == cl_out.kind = "raise" /\ cl_out.exc = exc /\ cl_http = <<>>

\* The start_date of the last create_activity call is a datetime with a
\* time zone, or an ISO string of one.
StartIsValid ==
    LET d == cl_call.args.start_date IN
    \/ d.t = "datetime" /\ d.aware
    \/ d.t = "str" /\ d.text \in DOMAIN IsoDates /\ IsoDates[d.text].aware

\* Its timestamp.
StartTs ==
    LET d == cl_call.args.start_date IN
    IF d.t = "str" THEN IsoDates[d.text].ts ELSE d.ts

\* The activity is of the sport type, by type or by sport_type.
IsOfType(a, sport_type) == a.type = sport_type \/ a.sport_type = sport_type

\* The last call was a create_activity that looked for duplicates, and the
\* page listed for it has an activity of the requested sport type.
DuplicateListed ==
    /\ Called("create_activity")
    /\ cl_call.args.do_detect_duplicates
    /\ StartIsValid
    /\ cl_call.args.list_response.status = 200
    /\ \E k \in 1..Len(cl_call.args.list_response.data) :
           IsOfType(cl_call.args.list_response.data[k], cl_call.args.sport_type)

\* The first listed activity of the requested sport type.
FirstDuplicate ==
    LET listed == cl_call.args.list_response.data
        k == CHOOSE j \in 1..Len(listed) :
                 /\ IsOfType(listed[j], cl_call.args.sport_type)
                 /\ \A h \in 1..(j - 1) : ~IsOfType(listed[h], cl_call.args.sport_type)
    IN  listed[k]

\* C23: when create_activity with do_detect_duplicates=True is answered a
\* list that holds an activity whose type or sport_type is the requested
\* sport type, it raises PossibleDuplicatedActivity with the id of the
\* first such activity, and the only request it has sent is the listing of
\* the activities from start_date - 1h15m to start_date + 1h15m: no create
\* request is sent.
C23_DuplicateRaisesBeforeCreate ==
    DuplicateListed =>
        /\ cl_out = Raise("PossibleDuplicatedActivity", <<FirstDuplicate.id>>)
        /\ Len(cl_http) = 1
        /\ cl_http[1].method = "GET"
        /\ cl_http[1].url = "athlete/activities"
        /\ cl_http[1].params.after = StartTs - DuplicateWindow
        /\ cl_http[1].params.before = StartTs + DuplicateWindow
        /\ \A k \in 1..Len(cl_http) : cl_http[k].method # "POST"

\* A duplicate was found by its type alone, behind an activity of another
\* sport, and reported with its id.
C23_Witness ==
    /\ DuplicateListed
    /\ Len(cl_call.args.list_response.data) = 2
    /\ ~IsOfType(cl_call.args.list_response.data[1], cl_call.args.sport_type)
    /\ cl_call.args.list_response.data[2].sport_type # cl_call.args.sport_type
    /\ cl_out.kind = "raise"
    /\ cl_out.exc = "PossibleDuplicatedActivity"
    /\ cl_out.args = <<cl_call.args.list_response.data[2].id>>
    /\ Len(cl_http) = 1

\* C24: invalid input is rejected before any request: a naive datetime in
\* list_activities and create_activity, a date string that cannot be parsed
\* in create_activity and in the list_activities and search_activities of
\* Garmin, a stream type that is not supported in get_streams, an unknown
\* activity type in search_activities and an unknown strategy in
\* ExporterToDb each raise their error, and the call has issued no request.
C24_InvalidInputSendsNothing ==
    /\ (Called("list_activities")
        /\ (NaiveArg(cl_call.args.after_ts) \/ NaiveArg(cl_call.args.before_ts)))
       => RejectedWith("NaiveDatetime")
    /\ (Called("create_activity") /\ NaiveArg(cl_call.args.start_date))
       => RejectedWith("NaiveDatetime")
    /\ (Called("create_activity") /\ UnparseableArg(cl_call.args.start_date))
       => RejectedWith("InvalidDatetime")
    /\ (Called("get_streams")
        /\ \E k \in 1..Len(cl_call.args.stream_types) :
               cl_call.args.stream_types[k] \notin SupportedStreamTypes)
       => RejectedWith("InvalidStreamType")
    /\ (Called("garmin.list_activities") /\ UnparseableArg(cl_call.args.day))
       => RejectedWith("InvalidDate")
    /\ (Called("garmin.search_activities")
        /\ (UnparseableArg(cl_call.args.day_start) \/ UnparseableArg(cl_call.args.day_end)))
       => RejectedWith("InvalidDate")
    /\ (Called("garmin.search_activities")
        /\ cl_call.args.activity_type # <<>>
        /\ lower(cl_call.args.activity_type) \notin GarminActivityTypes)
       => (RejectedWith("InvalidDate") \/ RejectedWith("ActivityTypeUnknown"))
    /\ (Called("ExporterToDb") /\ cl_call.args.strategy \notin StrategyEnum)
       => RejectedWith("InvalidStrategy")

\* A create_activity that was asked to look for duplicates got a string
\* that is not a date, and raised before it listed anything.
C24_Witness ==
    /\ Called("create_activity")
    /\ cl_call.args.do_detect_duplicates
    /\ UnparseableArg(cl_call.args.start_date)
    /\ RejectedWith("InvalidDatetime")


(***************************************************************************)
(* The pagination of the activity summaries and the retry wrapper          *)
(* (src/projects/strava-exporter-to-db/strava_exporter_to_db/exporter.py). *)
(*                                                                         *)
(* pg.pc is where the generator _api_yield_all_activity_summaries stands:  *)
(* "request" before a call of _closure, "ask" in console.input, "wait" in  *)
(* the loop that sleeps, "done" after the break, "exit" after sys.exit,    *)
(* "error" after any other exception.                                      *)
(***************************************************************************)
MaxPages == 2         \* most result pages of the API
MaxRateLimits == 2    \* rate limit answers the API gives to one generator

PageSize == 100            \* n_results_per_page
SleepSeconds == 30         \* sleep(30)
SecondsPerMinute == 60
AwayMinutes == 20          \* a user who answers after the next reset

\* t + timedelta(seconds=s)
AddSeconds(t, s) ==
    LET total == t.second + s IN
    AddMinutes([t EXCEPT !.second = total % SecondsPerMinute],
               total \div SecondsPerMinute)

\* The answers of the user, as sequences of characters, and the ones the
\* wrapper takes as a yes once they are in lower case.
Answers == {<<"y">>, <<"y", "E", "s">>, <<"n">>, <<>>}
YesAnswers == {<<"y", "e", "s">>, <<"y">>, <<"t", "r", "u", "e">>, <<"t">>}

\* The result pages of the account: page n is pages[n], and every page
\* behind the last one is empty.
ResultPage(pages, n) == IF n <= Len(pages) THEN pages[n] ELSE <<>>
PageLists ==
    UNION {[1..n -> {<<>>, <<ListedActivity(11, "Run", "TrailRun")>>}] : n \in 0..MaxPages}

\* A generator that goes on with the page after the next one.
NextPage_skipping(i) == i + 2

\* i += 1
NextPage(i) == i + 1

\* What the API can answer to the request of page i.
PageAnswers(i) ==
    {Ok(ResultPage(pg.pages, i)), ServerError}
    \cup (IF pg.limits < MaxRateLimits THEN {TooManyRequests} ELSE {})

\* An entry of the log of requests: the value of i, the page parameter of
\* the request, the status of the answer of the API and how the call of
\* list_activities ended.
PageRequest(i, response, res) ==
    [i |-> i, page |-> res.http[1].params.page, http_status |-> response.status,
     status |-> IF res.out.kind = "return" THEN "returned" ELSE res.out.exc]

\* One call of _closure: the wrapper calls list_activities for page i.  A
\* returned page is yielded and i moves on; RequestedResultsPageDoesNotExist
\* ends the generator; StravaApiRateLimitExceeded is caught by the wrapper,
\* which asks the user; any other exception leaves the generator.
RequestPage ==
    /\ pg.pc = "request"
    /\ \E response \in PageAnswers(pg.i) :
         LET res == list_activities(PyNone, PyNone, PageSize, pg.i, response)
             logged == [pg EXCEPT !.requests = Append(@, PageRequest(pg.i, response, res))]
         IN  pg' =
               IF res.out.kind = "return"
               THEN [logged EXCEPT !.yielded = Append(@, res.out.value),
                                   !.i = NextPage(@)]
               ELSE IF res.out.exc = "RequestedResultsPageDoesNotExist"
               THEN [logged EXCEPT !.pc = "done"]
               ELSE IF res.out.exc = "StravaApiRateLimitExceeded"
               THEN [logged EXCEPT !.pc = "ask",
                                   !.exc = StravaApiRateLimitExceeded(pg_now),
                                   !.limits = @ + 1]
               ELSE [logged EXCEPT !.pc = "error", !.out = res.out]
    /\ UNCHANGED pg_now
    /\ UNCHANGED <<data, validated, validate_log, lru_newer, mtVars, seVars, srVars,
                   gcVars, rlVars, exVars, clVars>>

\* console.input returns: any answer but a yes exits with status 1.  The
\* user may take longer than the time to the reset.
ConsoleInput ==
    /\ pg.pc = "ask"
    /\ \E a \in Answers, away \in {0, AwayMinutes} :
         /\ pg_now' = AddMinutes(pg_now, away)
         /\ pg' = IF lower(a) \notin YesAnswers
                  THEN [pg EXCEPT !.pc = "exit", !.answer = a,
                                  !.out = Raise("SystemExit", <<1>>)]
                  ELSE [pg EXCEPT !.pc = "wait", !.answer = a]
    /\ UNCHANGED <<data, validated, validate_log, lru_newer, mtVars, seVars, srVars,
                   gcVars, rlVars, exVars, clVars>>

\* A wait loop that never sleeps.
ResetIsAhead_never == FALSE

\* datetime.now().astimezone() < exc.reset_ts
ResetIsAhead == Earlier(pg_now, pg.exc.reset_ts)

\* One pass of the loop that waits: sleep(30).
Sleep ==
    /\ pg.pc = "wait"
    /\ ResetIsAhead
    /\ pg_now' = AddSeconds(pg_now, SleepSeconds)
    /\ UNCHANGED pg
    /\ UNCHANGED <<data, validated, validate_log, lru_newer, mtVars, seVars, srVars,
                   gcVars, rlVars, exVars, clVars>>

\* The loop that waits has ended: continue, to the next call of fn.
Continue ==
    /\ pg.pc = "wait"
    /\ ~ResetIsAhead
    /\ pg' = [pg EXCEPT !.pc = "request"]
    /\ UNCHANGED pg_now
    /\ UNCHANGED <<data, validated, validate_log, lru_newer, mtVars, seVars, srVars,
                   gcVars, rlVars, exVars, clVars>>

\* The times at which the generator is created.
StartTimes ==
    {DateTime(0, 0, 0, 0, 0), DateTime(0, 0, 14, 45, 0), DateTime(0, 23, 59, 59, 999999)}

InitPG ==
    /\ data = <<>>
    /\ NewCache
    /\ IdleRL
    /\ IdleEX
    /\ IdleCL
    /\ IdleMT
    /\ IdleSE
    /\ IdleSR
    /\ IdleGC
    /\ pg_now \in StartTimes
    /\ \E pages \in PageLists :
         pg = [NoGenerator EXCEPT !.pc = "request", !.i = 1, !.pages = pages]

NextPG == RequestPage \/ ConsoleInput \/ Sleep \/ Continue

SpecPG == InitPG /\ [][NextPG]_vars

\* The loops of the wrapper go on: sleep returns and the loop is left once
\* the reset is not ahead any more.
FairPG == SpecPG /\ WF_vars(Sleep) /\ WF_vars(Continue)


(***************************************************************************)
(* Properties of the retry wrapper and of the pagination.                  *)
(***************************************************************************)
RateLimited(res) == res.out.kind = "raise" /\ res.out.exc = "StravaApiRateLimitExceeded"

\* The answer 429 to the request of any method of StravaClient ends the
\* call with StravaApiRateLimitExceeded, and the answer 500 with the
\* HTTPError of that status.
RateLimitSurfaces ==
    /\ \A page_n \in 1..MaxPages :
         /\ RateLimited(list_activities(PyNone, PyNone, PageSize, page_n, TooManyRequests))
         /\ list_activities(PyNone, PyNone, PageSize, page_n, ServerError).out
              = Raise("HTTPError", <<500>>)
    /\ RateLimited(get_activity_details(UnknownId, TooManyRequests))
    /\ get_activity_details(UnknownId, ServerError).out = Raise("HTTPError", <<500>>)
    /\ RateLimited(update_activity(UnknownId, TooManyRequests))
    /\ update_activity(UnknownId, ServerError).out = Raise("HTTPError", <<500>>)
    /\ RateLimited(get_streams(UnknownId, <<"time">>, TooManyRequests))
    /\ get_streams(UnknownId, <<"time">>, ServerError).out = Raise("HTTPError", <<500>>)
    /\ \A sport_type \in SportTypes, detect \in BOOLEAN :
         /\ RateLimited(create_activity(sport_type, PyDatetime(DayOne, TRUE), detect,
                                        Ok(<<>>), TooManyRequests))
         /\ create_activity(sport_type, PyDatetime(DayOne, TRUE), detect,
                            Ok(<<>>), ServerError).out = Raise("HTTPError", <<500>>)
    /\ \A sport_type \in SportTypes :
         /\ RateLimited(create_activity(sport_type, PyDatetime(DayOne, TRUE), TRUE,
                                        TooManyRequests, Ok([id |-> 14])))
         /\ create_activity(sport_type, PyDatetime(DayOne, TRUE), TRUE,
                            ServerError, Ok([id |-> 14])).out = Raise("HTTPError", <<500>>)

Last(s) == s[Len(s)]

\* What the log of the generator shows of the rate limit: every answer 429
\* was raised as StravaApiRateLimitExceeded and every answer 500 as
\* HTTPError, which has left the generator as it was raised; the user is
\* asked and waited for only after a rate limit answer; an exit is an exit
\* with status 1 after an answer that is not a yes.
RateLimitIsHandled ==
    /\ \A k \in 1..Len(pg.requests) :
         /\ pg.requests[k].http_status = 429
              <=> pg.requests[k].status = "StravaApiRateLimitExceeded"
         /\ pg.requests[k].http_status = 500
              => (pg.requests[k].status = "HTTPError" /\ k = Len(pg.requests)
                  /\ pg.pc = "error" /\ pg.out = Raise("HTTPError", <<500>>))
    /\ pg.pc \in {"ask", "wait", "exit"}
         => (pg.requests # <<>> /\ Last(pg.requests).http_status = 429 /\ pg.exc.raised)
    /\ pg.pc = "exit"
         => (pg.out = Raise("SystemExit", <<1>>) /\ lower(pg.answer) \notin YesAnswers)
    /\ pg.pc = "wait" => lower(pg.answer) \in YesAnswers

\* The steps of the wrapper: the operation is called again only once
\* reset_ts is not ahead any more, and it is the same operation; a page is
\* handed out only by a call that was answered with that page.
WrapperStep ==
    /\ (pg.pc = "wait" /\ pg'.pc = "request")
         => (~Earlier(pg_now, pg.exc.reset_ts) /\ pg'.i = pg.i
             /\ pg'.requests = pg.requests)
    /\ (pg.pc = "request" /\ pg.requests # <<>>
        /\ Last(pg.requests).status = "StravaApiRateLimitExceeded"
        /\ pg'.requests # pg.requests)
         => Last(pg'.requests).i = Last(pg.requests).i
    /\ pg'.yielded # pg.yielded
         => /\ pg.pc = "request"
            /\ Len(pg'.requests) = Len(pg.requests) + 1
            /\ Last(pg'.requests).http_status = 200
            /\ pg'.yielded = Append(pg.yielded, ResultPage(pg.pages, pg.i))

Returned(requests) == SelectSeq(requests, LAMBDA r : r.status = "returned")

\* C30: the generator asks for the pages 1, 2, 3, ... in this order, asks
\* again for the same page only after a rate limit answer, yields every
\* returned page once, and ends at the first request that raises
\* RequestedResultsPageDoesNotExist; list_activities raises it exactly when
\* the page number is not 1 and the page is empty, so an empty page 1 is
\* yielded.
C30_PagesInOrder ==
    /\ pg.requests # <<>> => pg.requests[1].i = 1
    /\ \A k \in 1..Len(pg.requests) :
         LET r == pg.requests[k] IN
         /\ r.page = (IF r.i = 1 THEN 0 ELSE r.i)
         /\ r.status = "RequestedResultsPageDoesNotExist"
              <=> (r.http_status = 200 /\ r.i # 1 /\ ResultPage(pg.pages, r.i) = <<>>)
         /\ r.status = "returned"
              <=> (r.http_status = 200 /\ (r.i = 1 \/ ResultPage(pg.pages, r.i) # <<>>))
         /\ k < Len(pg.requests) =>
              /\ r.status \in {"returned", "StravaApiRateLimitExceeded"}
              /\ pg.requests[k + 1].i = (IF r.status = "returned" THEN r.i + 1 ELSE r.i)
    /\ Len(pg.yielded) = Len(Returned(pg.requests))
    /\ \A j \in 1..Len(pg.yielded) :
         /\ Returned(pg.requests)[j].i = j
         /\ pg.yielded[j] = ResultPage(pg.pages, j)
    /\ pg.pc = "done"
         <=> (pg.requests # <<>>
              /\ Last(pg.requests).status = "RequestedResultsPageDoesNotExist")
    /\ pg.pc = "done" => ~ENABLED NextPG

\* The generator has ended after it yielded an empty page 1 and the page 2,
\* one of them at the second attempt.
C30_Witness ==
    /\ pg.pc = "done"
    /\ Len(pg.yielded) = 2
    /\ pg.yielded[1] = <<>>
    /\ pg.yielded[2] # <<>>
    /\ Last(pg.requests).i = 3
    /\ \E k \in 1..Len(pg.requests) : pg.requests[k].status = "StravaApiRateLimitExceeded"

=============================================================================
